---- MODULE Spec2Model ----
(***************************************************************************)
(* Model of the shodan client: the notification store                      *)
(* (src/src/stores/notifications.ts) and the play queue store              *)
(* (src/src/stores/playQueue.ts), with the collaborators they call: the    *)
(* technique catalog, the preference filter, the preferences store and     *)
(* localStorage.                                                           *)
(*                                                                         *)
(* Every handler runs to completion (single-threaded JavaScript), so each  *)
(* action is one whole handler, followed by the flush of the reactive      *)
(* watchers that the handler triggered.  The only asynchronous event of    *)
(* the stores is the expiry of the timer started by processQueue.          *)
(*                                                                         *)
(* Specifications: SpecQueue (the play queue store and its collaborators), *)
(* SpecNotif (the notifications store), FairSpecNotif and FairSpecAuto     *)
(* (the same with the timer eventually firing), SpecRestore (a session    *)
(* that starts over any contents of localStorage), SpecFilter (the         *)
(* preference filter over every item and selection), SpecPlayer (the       *)
(* audio player and the preferences menu over the stores) and              *)
(* SpecPreferences (the preferences store over any stored preferences).    *)
(***************************************************************************)
EXTENDS Integers, Sequences, FiniteSets, TLC

VARIABLES
    \* notifications store
    activeNotification,     \* ref<Notification | null>
    permanentNotification,  \* ref<Notification | null>
    notificationQueue,      \* ref<Notification[]>
    isTransientShowing,     \* ref(false)
    transientTimerId,       \* ref<number | null>
    timers,                 \* handles of the window.setTimeout calls still pending
    nextId,                 \* number of identifiers generated so far, plus one
    \* play queue store
    queue,                  \* ref<Technique[]>
    currentIndex,           \* ref<number>
    isPlaying,              \* ref<boolean>
    \* collaborators
    techniques,             \* techniquesStore.techniques
    preferences,            \* preferencesStore.preferences
    storage,                \* localStorage, one entry per key
    failingKeys             \* the keys whose localStorage accesses throw

notifVars == <<activeNotification, permanentNotification, notificationQueue,
               isTransientShowing, transientTimerId, timers, nextId>>
queueVars == <<queue, currentIndex, isPlaying>>
envVars == <<techniques, preferences, storage, failingKeys>>
vars == <<activeNotification, permanentNotification, notificationQueue,
          isTransientShowing, transientTimerId, timers, nextId,
          queue, currentIndex, isPlaying,
          techniques, preferences, storage, failingKeys>>

----------------------------------------------------------------------------
(* Bounds *)

\* Notifications that callers outside the play queue add in one session
\* (one life of the stores).
MaxNotifications == 4
\* Notifications that the handlers of the play queue, the preferences and
\* the techniques stores add in one session.
MaxHandlerNotifications == 1
\* Size of the largest technique catalog.
MaxTechniques == 3

----------------------------------------------------------------------------
(* Values *)

\* null in a Notification | null slot.
NoNotification == [id |-> 0, type |-> "null", message |-> "null", duration |-> "null"]

\* null in a number | null slot (timer handles are positive).
NoTimer == 0

\* The Notification interface; the timestamp is written and never read.
Notification(id, type, message, duration) ==
    [id |-> id, type |-> type, message |-> message, duration |-> duration]

\* The state of the notifications store as one value, so that a handler
\* can thread it through the calls it makes.
NS == [activeNotification |-> activeNotification,
       permanentNotification |-> permanentNotification,
       notificationQueue |-> notificationQueue,
       isTransientShowing |-> isTransientShowing,
       transientTimerId |-> transientTimerId,
       timers |-> timers,
       nextId |-> nextId]

InitNS == [activeNotification |-> NoNotification,
           permanentNotification |-> NoNotification,
           notificationQueue |-> <<>>,
           isTransientShowing |-> FALSE,
           transientTimerId |-> NoTimer,
           timers |-> {},
           nextId |-> 1]

SetNS(ns) ==
    /\ activeNotification' = ns.activeNotification
    /\ permanentNotification' = ns.permanentNotification
    /\ notificationQueue' = ns.notificationQueue
    /\ isTransientShowing' = ns.isTransientShowing
    /\ transientTimerId' = ns.transientTimerId
    /\ timers' = ns.timers
    /\ nextId' = ns.nextId

\* Array.prototype.filter(n => n.id !== id) on the backlog.
RECURSIVE SelectNotId(_, _)
SelectNotId(q, id) ==
    IF q = <<>> THEN <<>>
    ELSE IF Head(q).id # id THEN <<Head(q)>> \o SelectNotId(Tail(q), id)
    ELSE SelectNotId(Tail(q), id)

----------------------------------------------------------------------------
(* notifications.ts *)

\* generateId: Date.now() and Math.random() give an identifier no earlier
\* notification of the session has.
generateId(ns) == ns.nextId

\* clearTimeout: the handle is no longer pending (no effect on a handle
\* that already fired).
clearTimeout(ns, handle) == [ns EXCEPT !.timers = @ \ {handle}]

\* processQueue that only tests the backlog.
processQueueEager(ns) ==
    IF Len(ns.notificationQueue) = 0
    THEN ns
    ELSE LET nextNotification == Head(ns.notificationQueue)
         IN  [ns EXCEPT !.notificationQueue = Tail(@),
                        !.activeNotification = nextNotification,
                        !.isTransientShowing = TRUE,
                        !.transientTimerId = nextNotification.id,
                        !.timers = @ \cup {nextNotification.id}]

\* processQueue, up to and including window.setTimeout.  The handle that
\* setTimeout returns is fresh; it is named after the notification dequeued
\* by the same call, which is dequeued once.
processQueue(ns) ==
    IF Len(ns.notificationQueue) = 0 \/ ns.isTransientShowing
    THEN ns
    ELSE LET nextNotification == Head(ns.notificationQueue)
         IN  [ns EXCEPT !.notificationQueue = Tail(@),
                        !.activeNotification = nextNotification,
                        !.isTransientShowing = TRUE,
                        !.transientTimerId = nextNotification.id,
                        !.timers = @ \cup {nextNotification.id}]

\* The callback without the reset of activeNotification.
timerCallbackKeep(ns) ==
    processQueue([ns EXCEPT !.isTransientShowing = FALSE])

\* The callback without the call of processQueue.
timerCallbackIdle(ns) ==
    [ns EXCEPT !.isTransientShowing = FALSE,
               !.activeNotification =
                   IF ns.permanentNotification # NoNotification
                   THEN ns.permanentNotification
                   ELSE NoNotification]

\* The callback that processQueue hands to window.setTimeout.
timerCallback(ns) ==
    LET shown == [ns EXCEPT !.isTransientShowing = FALSE,
                            !.activeNotification =
                                IF ns.permanentNotification # NoNotification
                                THEN ns.permanentNotification
                                ELSE NoNotification]
    IN  processQueue(shown)

\* addNotification putting a transient notification at the head of the
\* backlog (unshift for push).
addNotificationUnshift(ns, message, type, duration) ==
    LET notification == Notification(generateId(ns), type, message, duration)
        made == [ns EXCEPT !.nextId = @ + 1]
    IN  IF duration = "permanent"
        THEN [made EXCEPT !.permanentNotification = notification,
                          !.activeNotification =
                              IF ~ns.isTransientShowing THEN notification ELSE @]
        ELSE LET pushed == [made EXCEPT !.notificationQueue = <<notification>> \o @]
             IN  IF ~pushed.isTransientShowing
                    /\ pushed.activeNotification = pushed.permanentNotification
                 THEN processQueue(pushed)
                 ELSE pushed

\* addNotification showing a permanent notification at once, whatever is
\* on screen.
addNotificationPreempt(ns, message, type, duration) ==
    LET notification == Notification(generateId(ns), type, message, duration)
        made == [ns EXCEPT !.nextId = @ + 1]
    IN  IF duration = "permanent"
        THEN [made EXCEPT !.permanentNotification = notification,
                          !.activeNotification = notification]
        ELSE LET pushed == [made EXCEPT !.notificationQueue = Append(@, notification)]
             IN  IF ~pushed.isTransientShowing
                    /\ pushed.activeNotification = pushed.permanentNotification
                 THEN processQueue(pushed)
                 ELSE pushed

\* addNotification keeping the permanent notification that is already
\* there.
addNotificationKeepFirst(ns, message, type, duration) ==
    LET notification == Notification(generateId(ns), type, message, duration)
        made == [ns EXCEPT !.nextId = @ + 1]
    IN  IF duration = "permanent"
        THEN IF ns.permanentNotification # NoNotification
             THEN made
             ELSE [made EXCEPT !.permanentNotification = notification,
                               !.activeNotification =
                                   IF ~ns.isTransientShowing THEN notification ELSE @]
        ELSE LET pushed == [made EXCEPT !.notificationQueue = Append(@, notification)]
             IN  IF ~pushed.isTransientShowing
                    /\ pushed.activeNotification = pushed.permanentNotification
                 THEN processQueue(pushed)
                 ELSE pushed

\* addNotification that starts the display only when nothing is active.
addNotificationDefer(ns, message, type, duration) ==
    LET notification == Notification(generateId(ns), type, message, duration)
        made == [ns EXCEPT !.nextId = @ + 1]
    IN  IF duration = "permanent"
        THEN [made EXCEPT !.permanentNotification = notification,
                          !.activeNotification =
                              IF ~ns.isTransientShowing THEN notification ELSE @]
        ELSE LET pushed == [made EXCEPT !.notificationQueue = Append(@, notification)]
             IN  IF ~pushed.isTransientShowing
                    /\ pushed.activeNotification = NoNotification
                 THEN processQueue(pushed)
                 ELSE pushed

addNotification(ns, message, type, duration) ==
    LET notification == Notification(generateId(ns), type, message, duration)
        made == [ns EXCEPT !.nextId = @ + 1]
    IN  IF duration = "permanent"
        THEN [made EXCEPT !.permanentNotification = notification,
                          !.activeNotification =
                              IF ~ns.isTransientShowing THEN notification ELSE @]
        ELSE LET pushed == [made EXCEPT !.notificationQueue = Append(@, notification)]
             IN  IF ~pushed.isTransientShowing
                    /\ pushed.activeNotification = pushed.permanentNotification
                 THEN processQueue(pushed)
                 ELSE pushed

\* dismissNotification(id) that leaves the timer of the dismissed
\* transient running.
dismissByIdKeepTimer(ns, id) ==
    LET a == IF ns.activeNotification # NoNotification /\ ns.activeNotification.id = id
             THEN LET s == [ns EXCEPT !.isTransientShowing = FALSE]
                      r == IF s.permanentNotification # NoNotification
                              /\ s.permanentNotification.id # id
                           THEN [s EXCEPT !.activeNotification = s.permanentNotification]
                           ELSE [s EXCEPT !.activeNotification = NoNotification,
                                          !.permanentNotification = NoNotification]
                  IN  processQueue(r)
             ELSE ns
        p == IF a.permanentNotification # NoNotification /\ a.permanentNotification.id = id
             THEN LET n == [a EXCEPT !.permanentNotification = NoNotification]
                  IN  IF n.activeNotification # NoNotification /\ n.activeNotification.id = id
                      THEN processQueue([n EXCEPT !.activeNotification = NoNotification])
                      ELSE n
             ELSE a
    IN  [p EXCEPT !.notificationQueue = SelectNotId(@, id)]

\* dismissNotification(id) that takes the notification off the screen
\* whenever it empties the permanent slot.
dismissByIdClearsActive(ns, id) ==
    LET a == IF ns.activeNotification # NoNotification /\ ns.activeNotification.id = id
             THEN LET c == IF ns.isTransientShowing /\ ns.transientTimerId # NoTimer
                           THEN [clearTimeout(ns, ns.transientTimerId)
                                    EXCEPT !.transientTimerId = NoTimer]
                           ELSE ns
                      s == [c EXCEPT !.isTransientShowing = FALSE]
                      r == IF s.permanentNotification # NoNotification
                              /\ s.permanentNotification.id # id
                           THEN [s EXCEPT !.activeNotification = s.permanentNotification]
                           ELSE [s EXCEPT !.activeNotification = NoNotification,
                                          !.permanentNotification = NoNotification]
                  IN  processQueue(r)
             ELSE ns
        p == IF a.permanentNotification # NoNotification /\ a.permanentNotification.id = id
             THEN processQueue([a EXCEPT !.permanentNotification = NoNotification,
                                         !.activeNotification = NoNotification])
             ELSE a
    IN  [p EXCEPT !.notificationQueue = SelectNotId(@, id)]

\* dismissNotification(id) that empties the backlog.
dismissByIdDropsBacklog(ns, id) ==
    LET a == IF ns.activeNotification # NoNotification /\ ns.activeNotification.id = id
             THEN LET c == IF ns.isTransientShowing /\ ns.transientTimerId # NoTimer
                           THEN [clearTimeout(ns, ns.transientTimerId)
                                    EXCEPT !.transientTimerId = NoTimer]
                           ELSE ns
                      s == [c EXCEPT !.isTransientShowing = FALSE]
                      r == IF s.permanentNotification # NoNotification
                              /\ s.permanentNotification.id # id
                           THEN [s EXCEPT !.activeNotification = s.permanentNotification]
                           ELSE [s EXCEPT !.activeNotification = NoNotification,
                                          !.permanentNotification = NoNotification]
                  IN  processQueue(r)
             ELSE ns
        p == IF a.permanentNotification # NoNotification /\ a.permanentNotification.id = id
             THEN LET n == [a EXCEPT !.permanentNotification = NoNotification]
                  IN  IF n.activeNotification # NoNotification /\ n.activeNotification.id = id
                      THEN processQueue([n EXCEPT !.activeNotification = NoNotification])
                      ELSE n
             ELSE a
    IN  [p EXCEPT !.notificationQueue = <<>>]

\* dismissNotification(id) with a truthy id: lines 113-148.
dismissById(ns, id) ==
    LET a == IF ns.activeNotification # NoNotification /\ ns.activeNotification.id = id
             THEN LET c == IF ns.isTransientShowing /\ ns.transientTimerId # NoTimer
                           THEN [clearTimeout(ns, ns.transientTimerId)
                                    EXCEPT !.transientTimerId = NoTimer]
                           ELSE ns
                      s == [c EXCEPT !.isTransientShowing = FALSE]
                      r == IF s.permanentNotification # NoNotification
                              /\ s.permanentNotification.id # id
                           THEN [s EXCEPT !.activeNotification = s.permanentNotification]
                           ELSE [s EXCEPT !.activeNotification = NoNotification,
                                          !.permanentNotification = NoNotification]
                  IN  processQueue(r)
             ELSE ns
        p == IF a.permanentNotification # NoNotification /\ a.permanentNotification.id = id
             THEN LET n == [a EXCEPT !.permanentNotification = NoNotification]
                  IN  IF n.activeNotification # NoNotification /\ n.activeNotification.id = id
                      THEN processQueue([n EXCEPT !.activeNotification = NoNotification])
                      ELSE n
             ELSE a
    IN  [p EXCEPT !.notificationQueue = SelectNotId(@, id)]

\* dismissNotification() that leaves the timer running.
dismissAllKeepTimer(ns) ==
    [ns EXCEPT !.activeNotification = NoNotification,
               !.permanentNotification = NoNotification,
               !.notificationQueue = <<>>,
               !.isTransientShowing = FALSE]

\* dismissNotification() without an id (or with a falsy one): lines 149-160.
dismissAll(ns) ==
    LET c == IF ns.transientTimerId # NoTimer
             THEN [clearTimeout(ns, ns.transientTimerId) EXCEPT !.transientTimerId = NoTimer]
             ELSE ns
    IN  [c EXCEPT !.activeNotification = NoNotification,
                  !.permanentNotification = NoNotification,
                  !.notificationQueue = <<>>,
                  !.isTransientShowing = FALSE]

\* The identifier argument is optional: 0 stands for the absent one.
dismissNotification(ns, id) ==
    IF id # 0 THEN dismissById(ns, id) ELSE dismissAll(ns)

\* cleanup that also ends the display of the transient.
cleanupReset(ns) ==
    IF ns.transientTimerId # NoTimer
    THEN [clearTimeout(ns, ns.transientTimerId) EXCEPT !.transientTimerId = NoTimer,
                                                        !.isTransientShowing = FALSE]
    ELSE ns

cleanup(ns) ==
    IF ns.transientTimerId # NoTimer
    THEN [clearTimeout(ns, ns.transientTimerId) EXCEPT !.transientTimerId = NoTimer]
    ELSE ns

----------------------------------------------------------------------------
(* techniques.ts, filterTechniques.ts *)

\* An optional number field that is absent (kyu levels are 1..6).
Undefined == 0

\* null where a Technique is expected.
NoTechnique == [id |-> 0, aikikai |-> Undefined, aikicircle |-> Undefined]

\* The Technique interface, reduced to the fields the stores read.  The
\* catalog is data (data/techniques.json): technique i of the model has a
\* level for both sources, for aikikai only, or for none, in turn.
Technique(i) ==
    [id |-> i,
     aikikai |-> IF i % 3 = 0 THEN Undefined ELSE 6 - ((i - 1) % 2),
     aikicircle |-> IF i % 3 = 1 THEN 5 ELSE Undefined]

FullCatalog == [i \in 1..MaxTechniques |-> Technique(i)]

\* The catalogs a fetch can deliver: the full one, and a later version of
\* the document from which the first technique has been removed.
Catalogs == {FullCatalog, Tail(FullCatalog)}

\* technique[source]: undefined when the object has no such property.
Prop(technique, source) ==
    IF source \in DOMAIN technique THEN technique[source] ELSE Undefined

Range(f) == {f[x] : x \in DOMAIN f}

getTechniqueById(ts, id) ==
    IF \E k \in 1..Len(ts) : ts[k].id = id
    THEN ts[CHOOSE k \in 1..Len(ts) :
                 ts[k].id = id /\ \A m \in 1..(k - 1) : ts[m].id # id]
    ELSE NoTechnique

\* filterTechnique whose second case looks at the selected source only.
filterTechniqueLoose(technique, prefs) ==
    LET selectedSourceKyuValue == Prop(technique, prefs.selectedSource)
    IN  IF selectedSourceKyuValue # Undefined
        THEN selectedSourceKyuValue \in prefs.selectedKyus
        ELSE prefs.includeOther

filterTechnique(technique, prefs) ==
    LET selectedSourceKyuValue == Prop(technique, prefs.selectedSource)
    IN  IF selectedSourceKyuValue # Undefined
        THEN selectedSourceKyuValue \in prefs.selectedKyus
        ELSE IF prefs.includeOther
             THEN ~(\E source \in Range(prefs.sources) :
                        Prop(technique, source) # Undefined)
             ELSE FALSE

filterTechniquesUtil(ts, prefs) ==
    SelectSeq(ts, LAMBDA t : filterTechnique(t, prefs))

----------------------------------------------------------------------------
(* preferences.ts *)

AVAILABLE_KYUS == <<6, 5, 4, 3, 2, 1>>
AVAILABLE_SOURCES == <<"aikikai", "aikicircle">>

\* selectedKyus is an array that is only tested for membership.
DEFAULT_USER_PREFERENCES ==
    [selectedKyus |-> {6, 5, 4, 3, 2, 1},
     selectedSource |-> "aikikai",
     includeOther |-> FALSE]

DEFAULT_PREFERENCES ==
    [kyus |-> AVAILABLE_KYUS,
     sources |-> AVAILABLE_SOURCES,
     selectedKyus |-> DEFAULT_USER_PREFERENCES.selectedKyus,
     selectedSource |-> DEFAULT_USER_PREFERENCES.selectedSource,
     includeOther |-> DEFAULT_USER_PREFERENCES.includeOther]

----------------------------------------------------------------------------
(* localStorage *)

\* One entry per key.  An entry is <<>> when getItem returns null, and <<v>>
\* when it holds the JSON text of the value v.  The keys in garbled hold a
\* text that JSON.parse rejects (their entry is kept as <<>>); setItem
\* replaces the text.
JSONstringify(v) == <<v>>
JSONparse(item) == item[1]

EmptyStorage == [queue |-> <<>>, playstate |-> <<>>, preferences |-> <<>>, garbled |-> {}]

Keys == {"queue", "playstate", "preferences"}

\* An access to a key succeeds unless the storage throws for that key
\* (quota exceeded for the value to write, access denied).
Works(key) == key \notin failingKeys

savePreferencesToStorage(ns, st, prefs, ok) ==
    IF ok
    THEN [ns |-> ns,
          st |-> [st EXCEPT !.preferences =
                     JSONstringify([selectedKyus |-> prefs.selectedKyus,
                                    selectedSource |-> prefs.selectedSource,
                                    includeOther |-> prefs.includeOther])]]
    ELSE [ns |-> addNotification(ns, "Failed to save preferences to storage",
                                 "error", "transient"),
          st |-> st]

\* The entries of the model hold a list of levels, a string and a boolean,
\* which is what isValidUserPreferences asks of a parsed entry.
loadSavedPreferences(ns, st, readOk, writeOk) ==
    IF readOk /\ st.preferences # <<>>
    THEN LET parsed == JSONparse(st.preferences)
         IN  [ret |-> [kyus |-> AVAILABLE_KYUS,
                       sources |-> AVAILABLE_SOURCES,
                       selectedKyus |-> parsed.selectedKyus,
                       selectedSource |-> parsed.selectedSource,
                       includeOther |-> parsed.includeOther],
              ns |-> ns, st |-> st]
    ELSE LET failed == IF readOk THEN ns
                       ELSE addNotification(ns, "Failed to load preferences from storage",
                                            "error", "transient")
             saved == savePreferencesToStorage(failed, st, DEFAULT_PREFERENCES, writeOk)
         IN  [ret |-> DEFAULT_PREFERENCES, ns |-> saved.ns, st |-> saved.st]

batchUpdate(prefs, updates) ==
    LET k == IF "selectedKyus" \in DOMAIN updates
             THEN [prefs EXCEPT !.selectedKyus = updates.selectedKyus]
             ELSE prefs
        s == IF "selectedSource" \in DOMAIN updates
                /\ updates.selectedSource \in Range(k.sources)
             THEN [k EXCEPT !.selectedSource = updates.selectedSource]
             ELSE k
    IN  IF "includeOther" \in DOMAIN updates
        THEN [s EXCEPT !.includeOther = updates.includeOther]
        ELSE s

updateSelectedKyus(prefs, kyus) ==
    [prefs EXCEPT !.selectedKyus = {kyu \in kyus : kyu \in Range(prefs.kyus)}]

updateSelectedSource(prefs, source) ==
    IF source \in Range(prefs.sources)
    THEN [prefs EXCEPT !.selectedSource = source]
    ELSE prefs

toggleIncludeOther(prefs) == [prefs EXCEPT !.includeOther = ~prefs.includeOther]

setIncludeOther(prefs, value) == [prefs EXCEPT !.includeOther = value]

resetToDefaults(prefs) == DEFAULT_PREFERENCES

----------------------------------------------------------------------------
(* playQueue.ts *)

Ids(q) == [k \in 1..Len(q) |-> q[k].id]

\* loadSavedQueue reporting the identifiers it drops.
loadSavedQueueReporting(ns, st, ts, readOk) ==
    IF ~readOk \/ "queue" \in st.garbled
    THEN [ret |-> <<>>,
          ns |-> addNotification(ns, "Failed to load queue from storage",
                                 "error", "transient")]
    ELSE IF st.queue # <<>>
         THEN LET savedIds == JSONparse(st.queue)
                  mapped == [k \in 1..Len(savedIds) |-> getTechniqueById(ts, savedIds[k])]
                  loadedQueue == SelectSeq(mapped, LAMBDA t : t # NoTechnique)
              IN  [ret |-> loadedQueue,
                   ns |-> IF Len(loadedQueue) < Len(savedIds)
                          THEN addNotification(ns, "Failed to load queue from storage",
                                               "error", "transient")
                          ELSE ns]
         ELSE [ret |-> <<>>, ns |-> ns]

\* loadSavedQueue giving up as soon as one identifier does not resolve.
loadSavedQueueStrict(ns, st, ts, readOk) ==
    IF ~readOk \/ "queue" \in st.garbled
    THEN [ret |-> <<>>,
          ns |-> addNotification(ns, "Failed to load queue from storage",
                                 "error", "transient")]
    ELSE IF st.queue # <<>>
         THEN LET savedIds == JSONparse(st.queue)
                  mapped == [k \in 1..Len(savedIds) |-> getTechniqueById(ts, savedIds[k])]
              IN  [ret |-> IF \E k \in 1..Len(mapped) : mapped[k] = NoTechnique
                           THEN <<>> ELSE mapped,
                   ns |-> ns]
         ELSE [ret |-> <<>>, ns |-> ns]

\* A stored document that is not an array (or an array element that is
\* not the id of a technique) is read as the empty array (as an id that
\* does not resolve): lines 35 and 39.
loadSavedQueue(ns, st, ts, readOk) ==
    IF ~readOk \/ "queue" \in st.garbled
    THEN [ret |-> <<>>,
          ns |-> addNotification(ns, "Failed to load queue from storage",
                                 "error", "transient")]
    ELSE IF st.queue # <<>>
         THEN LET savedIds == JSONparse(st.queue)
                  mapped == [k \in 1..Len(savedIds) |-> getTechniqueById(ts, savedIds[k])]
                  loadedQueue == SelectSeq(mapped, LAMBDA t : t # NoTechnique)
              IN  [ret |-> loadedQueue, ns |-> ns]
         ELSE [ret |-> <<>>, ns |-> ns]

\* loadPlayState with an empty catch block.
loadPlayStateQuiet(ns, st, readOk) ==
    IF ~readOk \/ "playstate" \in st.garbled
    THEN [ret |-> [currentIndex |-> -1], ns |-> ns]
    ELSE IF st.playstate # <<>>
         THEN [ret |-> [currentIndex |-> JSONparse(st.playstate).currentIndex], ns |-> ns]
         ELSE [ret |-> [currentIndex |-> -1], ns |-> ns]

\* loadPlayState that never finds a stored index.
loadPlayStateDefault(ns, st, readOk) ==
    [ret |-> [currentIndex |-> -1], ns |-> ns]

\* A stored object whose currentIndex is not a number is read as the object
\* with currentIndex -1 (line 61); the text null makes line 61 throw, as a
\* text that does not parse does.
loadPlayState(ns, st, readOk) ==
    IF ~readOk \/ "playstate" \in st.garbled
    THEN [ret |-> [currentIndex |-> -1],
          ns |-> addNotification(ns, "Failed to load play state from storage",
                                 "error", "transient")]
    ELSE IF st.playstate # <<>>
         THEN [ret |-> [currentIndex |-> JSONparse(st.playstate).currentIndex], ns |-> ns]
         ELSE [ret |-> [currentIndex |-> -1], ns |-> ns]

\* saveQueue with an empty catch block.
saveQueueQuiet(ns, st, q, ok) ==
    IF ok
    THEN [ns |-> ns, st |-> [st EXCEPT !.queue = JSONstringify(Ids(q)),
                                       !.garbled = @ \ {"queue"}]]
    ELSE [ns |-> ns, st |-> st]

saveQueue(ns, st, q, ok) ==
    IF ok
    THEN [ns |-> ns, st |-> [st EXCEPT !.queue = JSONstringify(Ids(q)),
                                       !.garbled = @ \ {"queue"}]]
    ELSE [ns |-> addNotification(ns, "Failed to save queue state to storage",
                                 "error", "transient"),
          st |-> st]

savePlayState(ns, st, idx, ok) ==
    IF ok
    THEN [ns |-> ns,
          st |-> [st EXCEPT !.playstate = JSONstringify([currentIndex |-> idx]),
                            !.garbled = @ \ {"playstate"}]]
    ELSE [ns |-> addNotification(ns, "Failed to save queue state to storage",
                                 "error", "transient"),
          st |-> st]

\* The callback saving the play state only.
watchCallbackCursorOnly(ns, st, q, idx, triggered, okQueue, okState) ==
    IF triggered
    THEN savePlayState(ns, st, idx, okState)
    ELSE [ns |-> ns, st |-> st]

\* The callback of watch([queue, currentIndex, isPlaying], ..., {deep: true}).
\* It runs once after a handler that assigned a new value to one of the
\* three refs (triggered), and not at all otherwise.
watchCallback(ns, st, q, idx, triggered, okQueue, okState) ==
    IF triggered
    THEN LET a == saveQueue(ns, st, q, okQueue)
         IN  savePlayState(a.ns, a.st, idx, okState)
    ELSE [ns |-> ns, st |-> st]

\* The swap with its second assignment lost.
SwapLost(a, i, j) == [a EXCEPT ![i] = a[j]]

\* The destructuring swap of line 113.
Swap(a, i, j) == [a EXCEPT ![i] = a[j], ![j] = a[i]]

\* The loop of shuffleArray from position i (1-based) down: the set of the
\* arrays it can return, one per outcome of the Math.random() calls.
RECURSIVE shuffleFrom(_, _)
shuffleFrom(shuffled, i) ==
    IF i <= 1 THEN {shuffled}
    ELSE UNION {shuffleFrom(Swap(shuffled, i, j), i - 1) : j \in 1..i}

shuffleArray(array) == shuffleFrom(array, Len(array))

filterTechniques == filterTechniquesUtil(techniques, preferences)

\* generateQueue that reports nothing when the filter is empty.
generateQueueSilent(ns, shuffled) ==
    [queue |-> shuffled,
     currentIndex |-> IF Len(shuffled) > 0 THEN 0 ELSE -1,
     isPlaying |-> FALSE,
     ns |-> IF Len(shuffled) > 0
            THEN addNotification(ns,
                     "Play queue has been refreshed with " \o ToString(Len(shuffled))
                         \o " techniques",
                     "status", "transient")
            ELSE ns,
     ret |-> Len(shuffled) > 0]

\* generateQueue, given the array that shuffleArray returned.
generateQueue(ns, shuffled) ==
    [queue |-> shuffled,
     currentIndex |-> IF Len(shuffled) > 0 THEN 0 ELSE -1,
     isPlaying |-> FALSE,
     ns |-> IF Len(shuffled) > 0
            THEN addNotification(ns,
                     "Play queue has been refreshed with " \o ToString(Len(shuffled))
                         \o " techniques",
                     "status", "transient")
            ELSE addNotification(ns, "No techniques match current preferences",
                                 "error", "transient"),
     ret |-> Len(shuffled) > 0]

\* The restoration without the clamp to the last index.
restoreQueueNoClamp(ns, st, ts, shuffled, okLoadQueue, okLoadState) ==
    LET savedQueue == loadSavedQueue(ns, st, ts, okLoadQueue)
        savedState == loadPlayState(savedQueue.ns, st, okLoadState)
        n == Len(savedQueue.ret)
        c == savedState.ret.currentIndex
    IN  IF n > 0
        THEN [queue |-> savedQueue.ret,
              currentIndex |-> IF c >= 0 THEN c ELSE 0,
              isPlaying |-> FALSE,
              ns |-> savedState.ns,
              ret |-> TRUE]
        ELSE generateQueue(savedState.ns, shuffled)

\* The restoration that reports success whatever generateQueue returns.
restoreQueueBlind(ns, st, ts, shuffled, okLoadQueue, okLoadState) ==
    LET savedQueue == loadSavedQueue(ns, st, ts, okLoadQueue)
        savedState == loadPlayState(savedQueue.ns, st, okLoadState)
        n == Len(savedQueue.ret)
        c == savedState.ret.currentIndex
    IN  IF n > 0
        THEN [queue |-> savedQueue.ret,
              currentIndex |-> IF c >= 0 /\ c < n THEN c
                               ELSE IF c >= n THEN n - 1
                               ELSE 0,
              isPlaying |-> FALSE,
              ns |-> savedState.ns,
              ret |-> TRUE]
        ELSE [generateQueue(savedState.ns, shuffled) EXCEPT !.ret = TRUE]

\* initializeQueue past the two early returns: lines 153-177.
restoreQueue(ns, st, ts, shuffled, okLoadQueue, okLoadState) ==
    LET savedQueue == loadSavedQueue(ns, st, ts, okLoadQueue)
        savedState == loadPlayState(savedQueue.ns, st, okLoadState)
        n == Len(savedQueue.ret)
        c == savedState.ret.currentIndex
    IN  IF n > 0
        THEN [queue |-> savedQueue.ret,
              currentIndex |-> IF c >= 0 /\ c < n THEN c
                               ELSE IF c >= n THEN n - 1
                               ELSE 0,
              isPlaying |-> FALSE,
              ns |-> savedState.ns,
              ret |-> TRUE]
        ELSE generateQueue(savedState.ns, shuffled)

\* initializeQueue without the early return of line 144.
initializeQueueEager(q, idx, playing, ns, st, ts, shuffled, forceRegenerate, okQ, okS) ==
    LET r == IF forceRegenerate
             THEN generateQueue(ns, shuffled)
             ELSE restoreQueue(ns, st, ts, shuffled, okQ, okS)
    IN  [queue |-> r.queue, currentIndex |-> r.currentIndex,
         isPlaying |-> r.isPlaying, ns |-> r.ns,
         ret |-> r.ret, assigned |-> TRUE]

\* initializeQueue.  assigned tells whether the call assigned to the refs
\* of the store (it does not when the catalog is empty: line 144).
initializeQueue(q, idx, playing, ns, st, ts, shuffled, forceRegenerate, okQ, okS) ==
    IF Len(ts) = 0
    THEN [queue |-> q, currentIndex |-> idx, isPlaying |-> playing, ns |-> ns,
          ret |-> FALSE, assigned |-> FALSE]
    ELSE LET r == IF forceRegenerate
                  THEN generateQueue(ns, shuffled)
                  ELSE restoreQueue(ns, st, ts, shuffled, okQ, okS)
         IN  [queue |-> r.queue, currentIndex |-> r.currentIndex,
              isPlaying |-> r.isPlaying, ns |-> r.ns,
              ret |-> r.ret, assigned |-> TRUE]

currentTechnique(q, idx) ==
    IF idx >= 0 /\ idx < Len(q) THEN q[idx + 1] ELSE NoTechnique

\* nextTrack starting over at the end of the queue.
nextTrackWrap(q, idx) ==
    IF Len(q) = 0
    THEN [currentIndex |-> idx, ret |-> NoTechnique]
    ELSE IF idx < Len(q) - 1
         THEN [currentIndex |-> idx + 1, ret |-> currentTechnique(q, idx + 1)]
         ELSE [currentIndex |-> 0, ret |-> currentTechnique(q, 0)]

\* nextTrack returning the item it leaves.
nextTrackStale(q, idx) ==
    IF Len(q) = 0
    THEN [currentIndex |-> idx, ret |-> NoTechnique]
    ELSE IF idx < Len(q) - 1
         THEN [currentIndex |-> idx + 1, ret |-> currentTechnique(q, idx)]
         ELSE [currentIndex |-> idx, ret |-> NoTechnique]

nextTrack(q, idx) ==
    IF Len(q) = 0
    THEN [currentIndex |-> idx, ret |-> NoTechnique]
    ELSE IF idx < Len(q) - 1
         THEN [currentIndex |-> idx + 1, ret |-> currentTechnique(q, idx + 1)]
         ELSE [currentIndex |-> idx, ret |-> NoTechnique]

----------------------------------------------------------------------------
(* PreferencesMenu.vue, AudioPlayer.vue *)

\* The selections of the user in a preferences value.
Selection(prefs) ==
    [selectedKyus |-> prefs.selectedKyus,
     selectedSource |-> prefs.selectedSource,
     includeOther |-> prefs.includeOther]

\* hasChanges, with the preferences of the store as they were when the
\* menu opened.
hasChanges(initialPrefs, draftPrefs) == Selection(initialPrefs) # Selection(draftPrefs)

\* applyChanges without the check of what the draft selects.
applyChangesUnchecked(prefs, ts, ns, draft) ==
    IF draft.selectedSource \notin Range(draft.sources)
    THEN [preferences |-> prefs, ns |-> ns, committed |-> FALSE, closed |-> FALSE]
    ELSE IF hasChanges(prefs, draft)
    THEN [preferences |-> batchUpdate(prefs, Selection(draft)), ns |-> ns,
          committed |-> TRUE, closed |-> TRUE]
    ELSE [preferences |-> prefs, ns |-> ns, committed |-> FALSE, closed |-> TRUE]

\* applyChanges of the preferences menu, without the watchers that the
\* assignments of batchUpdate trigger.  committed tells whether
\* batchUpdate was called, closed whether 'close' was emitted.
applyChanges(prefs, ts, ns, draft) ==
    IF draft.selectedSource \notin Range(draft.sources)
    THEN [preferences |-> prefs, ns |-> ns, committed |-> FALSE, closed |-> FALSE]
    ELSE IF Len(filterTechniquesUtil(ts, draft)) = 0
    THEN [preferences |-> prefs,
          ns |-> addNotification(ns,
                     "Your selection would result in zero techniques. Please adjust your preferences.",
                     "error", "transient"),
          committed |-> FALSE, closed |-> FALSE]
    ELSE IF hasChanges(prefs, draft)
    THEN [preferences |-> batchUpdate(prefs, Selection(draft)), ns |-> ns,
          committed |-> TRUE, closed |-> TRUE]
    ELSE [preferences |-> prefs, ns |-> ns, committed |-> FALSE, closed |-> TRUE]

\* The handler that stops at the end of the queue.
onendedStop(q, idx, ns, shuffled) ==
    [queue |-> q, currentIndex |-> nextTrack(q, idx).currentIndex,
     isPlaying |-> FALSE, ns |-> ns, ret |-> TRUE]

\* The handler of the audio element's ended event, without the flush of
\* the watcher of the play queue.
onended(q, idx, ns, shuffled) ==
    LET n == nextTrack(q, idx)
    IN  IF n.ret = NoTechnique
        THEN generateQueue(ns, shuffled)
        ELSE [queue |-> q, currentIndex |-> n.currentIndex, isPlaying |-> FALSE,
              ns |-> ns, ret |-> TRUE]

----------------------------------------------------------------------------
(* Inputs *)

\* The calls of addNotification made outside the two stores:
\* techniques.ts:234 and PreferencesMenu.vue:156.
ExternalNotifications ==
    {<<"Failed to load techniques data", "error", "permanent">>,
     <<"No techniques match your current selection", "status", "transient">>}

\* The selections the preferences menu commits, and an update that names a
\* source the application does not know.
Updates ==
    {[selectedKyus |-> {6, 5, 4, 3, 2, 1}, selectedSource |-> "aikikai", includeOther |-> FALSE],
     [selectedKyus |-> {6, 5, 4, 3, 2, 1}, selectedSource |-> "aikikai", includeOther |-> TRUE],
     [selectedKyus |-> {6}, selectedSource |-> "aikicircle", includeOther |-> FALSE],
     [selectedSource |-> "unknown"]}

\* The items a catalog can hold, as the filter sees them: each of the two
\* optional levels is absent, 5 or 6.
Items ==
    {[id |-> 1, aikikai |-> a, aikicircle |-> c] :
        a \in {Undefined, 5, 6}, c \in {Undefined, 5, 6}}

\* The preferences the store can hold: the available options are fixed,
\* selectedKyus is any list of levels, and selectedSource is one of the
\* available sources or a string that loadSavedPreferences took from the
\* storage without looking it up.
Selections ==
    {[kyus |-> AVAILABLE_KYUS, sources |-> AVAILABLE_SOURCES,
      selectedKyus |-> ks, selectedSource |-> src, includeOther |-> other] :
        ks \in SUBSET {5, 6},
        src \in {"aikikai", "aikicircle", "unknown"},
        other \in BOOLEAN}

\* The selections that the user makes in the preferences menu: the
\* default one, the sixth kyu of aikikai, and the sixth kyu of aikicircle,
\* which no technique of the catalogs has.
DraftSelections ==
    {DEFAULT_USER_PREFERENCES,
     [selectedKyus |-> {6}, selectedSource |-> "aikikai", includeOther |-> FALSE],
     [selectedKyus |-> {6}, selectedSource |-> "aikicircle", includeOther |-> FALSE]}

\* The drafts of the preferences menu: a copy of the preferences of the
\* store that holds one of these selections.
Drafts(prefs) ==
    {[prefs EXCEPT !.selectedKyus = s.selectedKyus,
                   !.selectedSource = s.selectedSource,
                   !.includeOther = s.includeOther] : s \in DraftSelections}

\* The arguments of updateSelectedKyus: lists of levels, one of them with
\* a level that is not available.
KyuInputs == {{6}, {6, 5}, {6, 7}}

\* The arguments of updateSelectedSource: the available sources and a
\* string that is none of them.
SourceInputs == {"aikikai", "aikicircle", "unknown"}

\* What localStorage can hold under the key of the preferences when the
\* store is constructed: nothing, or a document with a list of levels, a
\* string and a boolean, written by this or another version of the
\* application or by the user.
StoredPreferences ==
    {<<>>} \cup
    {JSONstringify([selectedKyus |-> ks, selectedSource |-> src, includeOther |-> other]) :
        ks \in {{6, 5, 4, 3, 2, 1}, {6}}, src \in SourceInputs, other \in BOOLEAN}

\* The storage works, or it throws for the key of the preferences.
PreferencesModes == {{}, {"preferences"}}

\* The states of localStorage: it works, it throws for one of the two keys
\* of the play queue, or it throws for every key.
FailureModes == {{}, {"queue"}, {"playstate"}, Keys}

\* The storage works, or it rejects the identifier list, the largest of
\* the values written.
QuotaModes == {{}, {"queue"}}

\* What a browser can hold under the two keys of the play queue when the
\* application starts: what earlier sessions, earlier versions of the
\* application or the user left there.  An identifier list names techniques
\* of the largest catalog, each at most once; a cursor is any integer near
\* the range of the indices.
IdLists ==
    {l \in UNION {[1..n -> 1..MaxTechniques] : n \in 0..MaxTechniques} :
        \A i, j \in DOMAIN l : l[i] = l[j] => i = j}

StoredCursors == (-2)..(MaxTechniques + 1)

StoredStates ==
    {[queue |-> q, playstate |-> p, preferences |-> <<>>, garbled |-> g] :
        q \in {<<>>} \cup {JSONstringify(l) : l \in IdLists},
        p \in {<<>>} \cup {JSONstringify([currentIndex |-> c]) : c \in StoredCursors},
        g \in SUBSET {"queue", "playstate"}}

\* The bounds on the notifications of a session.
Fits(ns) == ns.nextId <= MaxNotifications + 1
FitsHandler(ns) == ns.nextId <= MaxHandlerNotifications + 1
\* The handlers of the components run after those of the stores and add
\* one notification more.
FitsPlayer(ns) == ns.nextId <= MaxHandlerNotifications + 2

----------------------------------------------------------------------------
(* State machine *)

Init ==
    /\ activeNotification = InitNS.activeNotification
    /\ permanentNotification = InitNS.permanentNotification
    /\ notificationQueue = InitNS.notificationQueue
    /\ isTransientShowing = InitNS.isTransientShowing
    /\ transientTimerId = InitNS.transientTimerId
    /\ timers = InitNS.timers
    /\ nextId = InitNS.nextId
    /\ queue = <<>>
    /\ currentIndex = -1
    /\ isPlaying = FALSE
    /\ techniques = <<>>
    /\ preferences = DEFAULT_PREFERENCES
    /\ storage = savePreferencesToStorage(InitNS, EmptyStorage, DEFAULT_PREFERENCES, TRUE).st
    /\ failingKeys = {}

(* Notifications store *)

AddNotification(message, type, duration) ==
    LET ns == addNotification(NS, message, type, duration)
    IN  /\ Fits(ns)
        /\ SetNS(ns)
        /\ UNCHANGED <<queueVars, envVars>>

TimerExpiry(handle) ==
    /\ handle \in timers
    /\ SetNS(timerCallback([NS EXCEPT !.timers = @ \ {handle}]))
    /\ UNCHANGED <<queueVars, envVars>>

DismissNotification(id) ==
    /\ SetNS(dismissNotification(NS, id))
    /\ UNCHANGED <<queueVars, envVars>>

Cleanup ==
    /\ SetNS(cleanup(NS))
    /\ UNCHANGED <<queueVars, envVars>>

(* Play queue store *)

SetQueue(r, w) ==
    /\ FitsHandler(w.ns)
    /\ queue' = r.queue
    /\ currentIndex' = r.currentIndex
    /\ isPlaying' = r.isPlaying
    /\ SetNS(w.ns)
    /\ storage' = w.st
    /\ UNCHANGED <<techniques, preferences, failingKeys>>

GenerateQueue ==
    \E shuffled \in shuffleArray(filterTechniques) :
        LET r == generateQueue(NS, shuffled)
            w == watchCallback(r.ns, storage, r.queue, r.currentIndex, TRUE,
                               Works("queue"), Works("playstate"))
        IN  SetQueue(r, w)

InitializeQueue(forceRegenerate) ==
    \E shuffled \in shuffleArray(filterTechniques) :
        LET r == initializeQueue(queue, currentIndex, isPlaying, NS, storage,
                                 techniques, shuffled, forceRegenerate,
                                 Works("queue"), Works("playstate"))
            w == watchCallback(r.ns, storage, r.queue, r.currentIndex, r.assigned,
                               Works("queue"), Works("playstate"))
        IN  SetQueue(r, w)

NextTrack ==
    LET n == nextTrack(queue, currentIndex)
        r == [queue |-> queue, currentIndex |-> n.currentIndex, isPlaying |-> isPlaying]
        w == watchCallback(NS, storage, queue, n.currentIndex,
                           n.currentIndex # currentIndex,
                           Works("queue"), Works("playstate"))
    IN  SetQueue(r, w)

SetPlaying(playing) ==
    LET r == [queue |-> queue, currentIndex |-> currentIndex, isPlaying |-> playing]
        w == watchCallback(NS, storage, queue, currentIndex, playing # isPlaying,
                           Works("queue"), Works("playstate"))
    IN  SetQueue(r, w)

\* resetQueue whose assignments are not persisted.
ResetQueueUnsaved ==
    LET r == [queue |-> <<>>, currentIndex |-> -1, isPlaying |-> FALSE]
        w == watchCallback(NS, storage, r.queue, r.currentIndex, FALSE,
                           Works("queue"), Works("playstate"))
    IN  SetQueue(r, w)

ResetQueue ==
    LET r == [queue |-> <<>>, currentIndex |-> -1, isPlaying |-> FALSE]
        w == watchCallback(NS, storage, r.queue, r.currentIndex, TRUE,
                           Works("queue"), Works("playstate"))
    IN  SetQueue(r, w)

(* Collaborators *)

\* loadTechniques (techniques.ts:203-239), called once per session from
\* onMounted: the fetch fails, or it delivers a catalog and the version is
\* then read from and written to localStorage inside the same try block.
\* The version key is not otherwise modelled: its accesses throw or not.
LoadTechniques ==
    /\ Len(techniques) = 0
    /\ \E fetched, okVersion \in BOOLEAN :
        LET ns == IF fetched /\ okVersion THEN NS
                  ELSE addNotification(NS, "Failed to load techniques data",
                                       "error", "permanent")
        IN  /\ FitsHandler(ns)
            /\ SetNS(ns)
            /\ IF fetched
               THEN \E catalog \in Catalogs : techniques' = catalog
               ELSE techniques' = techniques
    /\ UNCHANGED <<queueVars, preferences, storage, failingKeys>>

\* batchUpdate and the flush of watch(preferences, ..., {deep: true}).
BatchUpdate(updates) ==
    LET prefs == batchUpdate(preferences, updates)
        triggered == "selectedKyus" \in DOMAIN updates \/ prefs # preferences
        w == IF triggered
             THEN savePreferencesToStorage(NS, storage, prefs, Works("preferences"))
             ELSE [ns |-> NS, st |-> storage]
    IN  /\ FitsHandler(w.ns)
        /\ preferences' = prefs
        /\ SetNS(w.ns)
        /\ storage' = w.st
        /\ UNCHANGED <<queueVars, techniques, failingKeys>>

\* The page is loaded again: the stores are constructed anew, localStorage
\* is what the previous session left.
Reload ==
    LET p == loadSavedPreferences(InitNS, storage, Works("preferences"), Works("preferences"))
    IN  /\ queue' = <<>>
        /\ currentIndex' = -1
        /\ isPlaying' = FALSE
        /\ techniques' = <<>>
        /\ preferences' = p.ret
        /\ storage' = p.st
        /\ SetNS(p.ns)
        /\ UNCHANGED failingKeys

\* localStorage starts or stops throwing for some keys.
StorageChanges(keys) ==
    /\ keys # failingKeys
    /\ failingKeys' = keys
    /\ UNCHANGED <<notifVars, queueVars, techniques, preferences, storage>>

NextNotif ==
    \/ \E n \in ExternalNotifications : AddNotification(n[1], n[2], n[3])
    \/ \E handle \in 1..MaxNotifications : TimerExpiry(handle)
    \/ \E id \in 0..MaxNotifications : DismissNotification(id)
    \/ Cleanup

NextQueue ==
    \/ GenerateQueue
    \/ \E forceRegenerate \in BOOLEAN : InitializeQueue(forceRegenerate)
    \/ NextTrack
    \/ \E playing \in BOOLEAN : SetPlaying(playing)
    \/ ResetQueue
    \/ LoadTechniques
    \/ \E updates \in Updates : BatchUpdate(updates)
    \/ Reload
    \/ \E keys \in FailureModes : StorageChanges(keys)

\* The play queue store reads nothing of the notifications store, and the
\* notifications store nothing of the play queue: the two are checked apart.

\* The notifications store, with callers that add notifications.
SpecNotif == Init /\ [][NextNotif]_vars

\* The timer started by processQueue fires unless it is cleared first.
FairSpecNotif == SpecNotif /\ WF_vars(\E handle \in 1..MaxNotifications : TimerExpiry(handle))

\* The notifications store when nothing is dismissed by hand.
NextAuto ==
    \/ \E n \in ExternalNotifications : AddNotification(n[1], n[2], n[3])
    \/ \E handle \in 1..MaxNotifications : TimerExpiry(handle)
    \/ Cleanup

FairSpecAuto ==
    Init /\ [][NextAuto]_vars
         /\ WF_vars(\E handle \in 1..MaxNotifications : TimerExpiry(handle))

\* The play queue store with its collaborators.
SpecQueue == Init /\ [][NextQueue]_vars

(* Components *)

\* A handler of a component: what it leaves in the play queue and the
\* notifications stores and in the storage.
SetPlayer(r, ns, st) ==
    /\ FitsPlayer(ns)
    /\ queue' = r.queue
    /\ currentIndex' = r.currentIndex
    /\ isPlaying' = r.isPlaying
    /\ SetNS(ns)
    /\ storage' = st

\* playCurrentTrack, up to the call of play(): with no current technique
\* it generates a queue.
PlayPressed ==
    /\ ~isPlaying
    /\ currentTechnique(queue, currentIndex) = NoTechnique
    /\ \E shuffled \in shuffleArray(filterTechniques) :
          LET r == generateQueue(NS, shuffled)
              w == watchCallback(r.ns, storage, r.queue, r.currentIndex, TRUE,
                                 Works("queue"), Works("playstate"))
          IN  SetPlayer(r, w.ns, w.st)
    /\ UNCHANGED <<techniques, preferences, failingKeys>>

\* The promise of play() settles: setPlaying(true) when the playback has
\* started, setPlaying(false) (which changes nothing) when it has not.
PlayStarted(started) ==
    /\ ~isPlaying
    /\ currentTechnique(queue, currentIndex) # NoTechnique
    /\ LET r == [queue |-> queue, currentIndex |-> currentIndex, isPlaying |-> started]
           w == watchCallback(NS, storage, queue, currentIndex, started # isPlaying,
                              Works("queue"), Works("playstate"))
       IN  SetPlayer(r, w.ns, w.st)
    /\ UNCHANGED <<techniques, preferences, failingKeys>>

\* The item that plays has ended: audioElement.onended and the flush of
\* the watcher of the play queue.  The shuffle is drawn only when
\* nextTrack returns none.
OnEnded ==
    /\ isPlaying
    /\ \E shuffled \in IF nextTrack(queue, currentIndex).ret = NoTechnique
                       THEN shuffleArray(filterTechniques)
                       ELSE {<<>>} :
          LET r == onended(queue, currentIndex, NS, shuffled)
              w == watchCallback(r.ns, storage, r.queue, r.currentIndex, TRUE,
                                 Works("queue"), Works("playstate"))
          IN  SetPlayer(r, w.ns, w.st)
    /\ UNCHANGED <<techniques, preferences, failingKeys>>

\* The audio player mounts: loadTechniques settles and the rest of
\* onMounted runs, which calls initializeQueue().  A failed load leaves
\* the permanent notification of techniques.ts:234.
Mount ==
    /\ Len(techniques) = 0
    /\ permanentNotification = NoNotification
    /\ \E fetched, okVersion \in BOOLEAN, catalog \in Catalogs :
          LET ns == IF fetched /\ okVersion THEN NS
                    ELSE addNotification(NS, "Failed to load techniques data",
                                         "error", "permanent")
              ts == IF fetched THEN catalog ELSE techniques
          IN  \E shuffled \in shuffleArray(filterTechniquesUtil(ts, preferences)) :
                LET r == initializeQueue(queue, currentIndex, isPlaying, ns, storage,
                                         ts, shuffled, FALSE,
                                         Works("queue"), Works("playstate"))
                    w == watchCallback(r.ns, storage, r.queue, r.currentIndex, r.assigned,
                                       Works("queue"), Works("playstate"))
                IN  /\ SetPlayer(r, w.ns, w.st)
                    /\ techniques' = ts
    /\ UNCHANGED <<preferences, failingKeys>>

\* The preferences menu is closed with a draft: applyChanges, then the
\* watchers of the preferences (the one of the store saves them, the one
\* of the audio player calls resetQueue and generateQueue), then the
\* watcher of the play queue.
ApplyChanges(draft) ==
    LET a == applyChanges(preferences, techniques, NS, draft)
    IN  /\ preferences' = a.preferences
        /\ IF a.committed
           THEN \E shuffled \in shuffleArray(filterTechniquesUtil(techniques, a.preferences)) :
                   LET s == savePreferencesToStorage(a.ns, storage, a.preferences,
                                                     Works("preferences"))
                       r == generateQueue(s.ns, shuffled)
                       w == watchCallback(r.ns, s.st, r.queue, r.currentIndex, TRUE,
                                          Works("queue"), Works("playstate"))
                   IN  SetPlayer(r, w.ns, w.st)
           ELSE SetPlayer([queue |-> queue, currentIndex |-> currentIndex,
                           isPlaying |-> isPlaying], a.ns, storage)
        /\ UNCHANGED <<techniques, failingKeys>>

\* The application: the audio player mounts, the user plays, items end, the user closes the
\* preferences menu, the page is loaded again.
NextPlayer ==
    \/ Mount
    \/ PlayPressed
    \/ PlayStarted(TRUE)
    \/ OnEnded
    \/ \E draft \in Drafts(preferences) : ApplyChanges(draft)
    \/ Reload
    \/ \E keys \in QuotaModes : StorageChanges(keys)

SpecPlayer == Init /\ [][NextPlayer]_vars

\* An operation of the preferences store that leaves prefs, and the flush
\* of watch(preferences, ..., {deep: true}) when it assigned something
\* new.
SetPreferences(prefs, triggered) ==
    LET w == IF triggered
             THEN savePreferencesToStorage(NS, storage, prefs, Works("preferences"))
             ELSE [ns |-> NS, st |-> storage]
    IN  /\ FitsHandler(w.ns)
        /\ preferences' = prefs
        /\ SetNS(w.ns)
        /\ storage' = w.st
        /\ UNCHANGED <<queueVars, techniques, failingKeys>>

UpdateSelectedKyus(kyus) ==
    SetPreferences(updateSelectedKyus(preferences, kyus), TRUE)

UpdateSelectedSource(source) ==
    SetPreferences(updateSelectedSource(preferences, source),
                   updateSelectedSource(preferences, source) # preferences)

ToggleIncludeOther == SetPreferences(toggleIncludeOther(preferences), TRUE)

SetIncludeOther(value) ==
    SetPreferences(setIncludeOther(preferences, value), value # preferences.includeOther)

ResetToDefaults == SetPreferences(resetToDefaults(preferences), TRUE)

\* The preferences store is constructed over what localStorage holds
\* under the key of the preferences.
InitPreferences ==
    /\ queue = <<>>
    /\ currentIndex = -1
    /\ isPlaying = FALSE
    /\ techniques = <<>>
    /\ failingKeys = {}
    /\ \E document \in StoredPreferences :
          LET p == loadSavedPreferences(InitNS, [EmptyStorage EXCEPT !.preferences = document],
                                        TRUE, TRUE)
          IN  /\ preferences = p.ret
              /\ storage = p.st
              /\ activeNotification = p.ns.activeNotification
              /\ permanentNotification = p.ns.permanentNotification
              /\ notificationQueue = p.ns.notificationQueue
              /\ isTransientShowing = p.ns.isTransientShowing
              /\ transientTimerId = p.ns.transientTimerId
              /\ timers = p.ns.timers
              /\ nextId = p.ns.nextId

\* The callers of the preferences store, and the next load of the page.
NextPreferences ==
    \/ \E kyus \in KyuInputs : UpdateSelectedKyus(kyus)
    \/ \E source \in SourceInputs : UpdateSelectedSource(source)
    \/ ToggleIncludeOther
    \/ \E value \in BOOLEAN : SetIncludeOther(value)
    \/ ResetToDefaults
    \/ \E updates \in Updates : BatchUpdate(updates)
    \/ Reload
    \/ \E keys \in PreferencesModes : StorageChanges(keys)

SpecPreferences == InitPreferences /\ [][NextPreferences]_vars

\* The stores once a catalog of one item is loaded and a selection is
\* committed; generateQueue then filters the catalog.
InitFilter ==
    /\ activeNotification = InitNS.activeNotification
    /\ permanentNotification = InitNS.permanentNotification
    /\ notificationQueue = InitNS.notificationQueue
    /\ isTransientShowing = InitNS.isTransientShowing
    /\ transientTimerId = InitNS.transientTimerId
    /\ timers = InitNS.timers
    /\ nextId = InitNS.nextId
    /\ queue = <<>>
    /\ currentIndex = -1
    /\ isPlaying = FALSE
    /\ \E item \in Items : techniques = <<item>>
    /\ preferences \in Selections
    /\ storage = savePreferencesToStorage(InitNS, EmptyStorage, preferences, TRUE).st
    /\ failingKeys = {}

NextFilter == GenerateQueue

SpecFilter == InitFilter /\ [][NextFilter]_vars

\* The stores at the start of a session in a browser that holds anything
\* under the keys of the play queue; the preferences are those an earlier
\* session committed.
InitRestore ==
    /\ activeNotification = InitNS.activeNotification
    /\ permanentNotification = InitNS.permanentNotification
    /\ notificationQueue = InitNS.notificationQueue
    /\ isTransientShowing = InitNS.isTransientShowing
    /\ transientTimerId = InitNS.transientTimerId
    /\ timers = InitNS.timers
    /\ nextId = InitNS.nextId
    /\ queue = <<>>
    /\ currentIndex = -1
    /\ isPlaying = FALSE
    /\ techniques = <<>>
    /\ \E updates \in Updates, st \in StoredStates :
          /\ preferences = batchUpdate(DEFAULT_PREFERENCES, updates)
          /\ ("queue" \in st.garbled) => st.queue = <<>>
          /\ ("playstate" \in st.garbled) => st.playstate = <<>>
          /\ storage = savePreferencesToStorage(InitNS, st, preferences, TRUE).st
    /\ failingKeys \in FailureModes

\* A session from its start to the restoration of the play queue
\* (AudioPlayer.vue, onMounted), and the next load of the page.
NextRestore ==
    \/ LoadTechniques
    \/ \E forceRegenerate \in BOOLEAN : InitializeQueue(forceRegenerate)
    \/ Reload

SpecRestore == InitRestore /\ [][NextRestore]_vars

----------------------------------------------------------------------------
(* Properties of the play queue store *)

\* C1: in every reachable state, an empty queue has cursor -1 and is not
\* playing, and a non-empty queue has its cursor on one of its items.
QueueInvariant ==
    IF Len(queue) = 0
    THEN currentIndex = -1 /\ isPlaying = FALSE
    ELSE 0 <= currentIndex /\ currentIndex < Len(queue)

IsPermutation(q, f) ==
    /\ Len(q) = Len(f)
    /\ \A t \in Range(f) : Cardinality({k \in 1..Len(q) : q[k].id = t.id}) = 1

\* C2: a step of generateQueue whose filtered result is not empty leaves a
\* queue with the identifiers of the filtered result, each exactly once,
\* cursor 0 and isPlaying false.  Stated by contraposition: every
\* generateQueue adds a notification (GenerateNotifies), and a step that
\* adds one and leaves anything else is not a step of generateQueue.
GenerateNotifies ==
    \A shuffled \in shuffleArray(filterTechniques) :
        generateQueue(NS, shuffled).ns.nextId > nextId

GeneratePermutes ==
    /\ []GenerateNotifies
    /\ [][(/\ Len(filterTechniques) > 0
            /\ nextId' > nextId
            /\ ~(/\ IsPermutation(queue', filterTechniques)
                 /\ currentIndex' = 0
                 /\ isPlaying' = FALSE))
            => ~GenerateQueue]_vars

GenerateWitness ==
    /\ Len(queue) = MaxTechniques
    /\ queue # filterTechniques
    /\ IsPermutation(queue, filterTechniques)
    /\ currentIndex = 0
    /\ activeNotification.type = "status"

\* C3: the cursor decreases only in a step of generateQueue, resetQueue or
\* initializeQueue (or when the store is created anew), and nextTrack with
\* the cursor on the last item returns none and changes neither the items
\* nor the cursor.
NextTrackAtEnd ==
    (Len(queue) > 0 /\ currentIndex = Len(queue) - 1)
        => nextTrack(queue, currentIndex) = [currentIndex |-> currentIndex, ret |-> NoTechnique]

NextTrackMonotonic ==
    /\ []NextTrackAtEnd
    /\ [][/\ currentIndex' < currentIndex
              => \/ Reload
                 \/ ResetQueue
                 \/ GenerateQueue
                 \/ \E forceRegenerate \in BOOLEAN : InitializeQueue(forceRegenerate)
          /\ (Len(queue) > 0 /\ currentIndex = Len(queue) - 1 /\ NextTrack)
              => (queue' = queue /\ currentIndex' = currentIndex)]_vars

NextTrackWitness ==
    /\ Len(queue) >= 2
    /\ currentIndex = Len(queue) - 1
    /\ isPlaying

\* C10: persisting a non-empty queue whose items are in the catalog and then
\* restoring it into a new store gives the same identifiers in the same
\* order and the same cursor, with isPlaying false whatever it was; and a
\* step of initializeQueue() in a new store, with working storage holding a
\* list that resolves and a cursor inside it, leaves exactly what is stored.
Resolves(ids) ==
    \A k \in 1..Len(ids) : getTechniqueById(techniques, ids[k]) # NoTechnique

RoundTripOfState ==
    (Len(queue) > 0 /\ 0 <= currentIndex /\ currentIndex < Len(queue)
        /\ \A k \in 1..Len(queue) : getTechniqueById(techniques, queue[k].id) = queue[k])
    => LET persisted == watchCallback(InitNS, EmptyStorage, queue, currentIndex,
                                      TRUE, TRUE, TRUE).st
           restored == restoreQueue(InitNS, persisted, techniques, <<>>, TRUE, TRUE)
       IN  /\ restored.queue = queue
           /\ restored.currentIndex = currentIndex
           /\ restored.isPlaying = FALSE
           /\ restored.ret = TRUE

StoredQueueValid ==
    /\ failingKeys = {}
    /\ storage.queue # <<>>
    /\ storage.playstate # <<>>
    /\ Len(JSONparse(storage.queue)) > 0
    /\ Resolves(JSONparse(storage.queue))
    /\ JSONparse(storage.playstate).currentIndex >= 0
    /\ JSONparse(storage.playstate).currentIndex < Len(JSONparse(storage.queue))

FreshQueue == queue = <<>> /\ currentIndex = -1 /\ isPlaying = FALSE

RestorationRoundTrip ==
    /\ []RoundTripOfState
    /\ [][(FreshQueue /\ Len(techniques) > 0 /\ StoredQueueValid /\ InitializeQueue(FALSE))
            => /\ Ids(queue') = JSONparse(storage.queue)
               /\ currentIndex' = JSONparse(storage.playstate).currentIndex
               /\ isPlaying' = FALSE
               /\ storage' = storage]_vars

\* A queue restored (the session has emitted no notification) with the
\* cursor past the first item.
RestorationWitness ==
    /\ nextId = 1
    /\ Len(queue) >= 2
    /\ currentIndex >= 1
    /\ failingKeys = {}
    /\ storage.queue = JSONstringify(Ids(queue))
    /\ storage.playstate = JSONstringify([currentIndex |-> currentIndex])

----------------------------------------------------------------------------
(* Properties of the notifications store *)

IsTransient(n) == n.duration = "transient"
IsPermanent(n) == n.duration = "permanent"
Backlog == Range(notificationQueue)

\* A step that ends the display of the showing transient: its timer fires,
\* or it is dismissed (by its identifier, or with everything else).
EndsDisplay ==
    \/ TimerExpiry(activeNotification.id)
    \/ DismissNotification(activeNotification.id)
    \/ DismissNotification(0)

\* A step of dismissNotification.
Dismisses == \E id \in 0..MaxNotifications : DismissNotification(id)

\* C4: the backlog is in order of arrival and holds only notifications
\* added after the one showing; a notification leaves the backlog only as
\* its head, to become the active one, unless a dismissal removes it; and
\* the showing transient is replaced only when its timer fires or it is
\* dismissed.
FifoOrder ==
    /\ \A k \in 1..(Len(notificationQueue) - 1) :
           notificationQueue[k].id < notificationQueue[k + 1].id
    /\ (isTransientShowing /\ IsTransient(activeNotification))
           => \A n \in Backlog : activeNotification.id < n.id

NotificationOrdering ==
    /\ []FifoOrder
    /\ [][/\ \A n \in Backlog :
                 n \notin Range(notificationQueue')
                     => \/ n = Head(notificationQueue) /\ activeNotification' = n
                        \/ Dismisses
          /\ (isTransientShowing /\ activeNotification' # activeNotification)
                 => EndsDisplay]_vars

OrderingWitness ==
    /\ isTransientShowing
    /\ IsTransient(activeNotification)
    /\ activeNotification.id >= 2
    /\ Len(notificationQueue) >= 1

AddsPermanent ==
    \E n \in ExternalNotifications :
        n[3] = "permanent" /\ AddNotification(n[1], n[2], n[3])

\* C5: addNotification(permanent) while no transient is showing makes the
\* new notification the active one; while a transient is showing it leaves
\* the active one as it is, and a permanent notification then becomes
\* active only when the timer of that transient fires or it is dismissed.
PermanentPrecedence ==
    [][/\ (AddsPermanent /\ ~isTransientShowing)
            => /\ activeNotification'.id = nextId
               /\ IsPermanent(activeNotification')
               /\ activeNotification' = permanentNotification'
       /\ (AddsPermanent /\ isTransientShowing)
            => /\ activeNotification' = activeNotification
               /\ permanentNotification'.id = nextId
       /\ (isTransientShowing /\ IsPermanent(activeNotification'))
            => EndsDisplay]_vars

PrecedenceWitness ==
    /\ isTransientShowing
    /\ IsTransient(activeNotification)
    /\ IsPermanent(permanentNotification)
    /\ permanentNotification.id > activeNotification.id

\* C6: a permanent notification that is neither replaced nor dismissed
\* eventually becomes the active one.
PermanentNeverStarved ==
    \A id \in 1..MaxNotifications :
        (permanentNotification.id = id)
            ~> (activeNotification.id = id \/ permanentNotification.id # id)

\* C7: the active notification is none, the permanent one, or a transient
\* that is showing and no longer in the backlog; the backlog holds
\* transient notifications only.
NotificationStateInvariant ==
    /\ \/ activeNotification = NoNotification
       \/ activeNotification = permanentNotification
       \/ /\ IsTransient(activeNotification)
          /\ isTransientShowing
    /\ \A n \in Backlog : IsTransient(n) /\ n.id # activeNotification.id
    /\ permanentNotification = NoNotification \/ IsPermanent(permanentNotification)

StateWitness ==
    /\ isTransientShowing
    /\ IsTransient(activeNotification)
    /\ permanentNotification # NoNotification
    /\ Len(notificationQueue) >= 1

\* C8: every transient notification in the backlog eventually leaves it,
\* which it does by becoming the active one or by being dismissed.
NoTransientLost ==
    \A id \in 1..MaxNotifications :
        (\E n \in Backlog : n.id = id) ~> ~(\E n \in Backlog : n.id = id)

\* C9: an active transient notification eventually stops being the active
\* one.
TransientExpires ==
    \A id \in 1..MaxNotifications :
        (IsTransient(activeNotification) /\ activeNotification.id = id)
            ~> (activeNotification.id # id)

\* The notifications that a store holds, and those among them added since
\* the store was as in ns.
Held(ns) ==
    ({ns.activeNotification, ns.permanentNotification} \cup Range(ns.notificationQueue))
        \ {NoNotification}

AddedSince(ns, later) == {n \in Held(later) : n.id >= ns.nextId}

StorageWorks == Works("queue") /\ Works("playstate")

\* C14: generateQueue adds exactly one notification: of kind status with
\* the number of queued items when the filtered result is not empty, of
\* kind error when it is empty, and then the queue is empty, the cursor -1
\* and the result false.
GenerateReport(r, added) ==
    /\ r.ns.nextId = nextId + 1
    /\ Cardinality(added) = 1
    /\ \A n \in added :
          /\ n.duration = "transient"
          /\ IF Len(filterTechniques) > 0
             THEN /\ n.type = "status"
                  /\ n.message = "Play queue has been refreshed with "
                                     \o ToString(Len(r.queue)) \o " techniques"
                  /\ r.ret = TRUE
             ELSE /\ n.type = "error"
                  /\ r.queue = <<>>
                  /\ r.currentIndex = -1
                  /\ r.ret = FALSE

GenerateCall ==
    \A shuffled \in shuffleArray(filterTechniques) :
        LET r == generateQueue(NS, shuffled)
        IN  GenerateReport(r, AddedSince(NS, r.ns))

OneNotificationPerGenerate ==
    /\ []GenerateCall
    /\ [][(/\ StorageWorks
            /\ isPlaying' = FALSE
            /\ nextId' > nextId
            /\ UNCHANGED <<techniques, preferences, failingKeys>>
            /\ ~(/\ nextId' = nextId + 1
                 /\ Cardinality(AddedSince(NS, NS')) = 1
                 /\ Len(filterTechniques) = 0
                        => (queue' = <<>> /\ currentIndex' = -1)))
            => ~GenerateQueue]_vars

\* generateQueue has run over an empty filtered result.
GenerateErrorWitness ==
    /\ Len(techniques) > 0
    /\ Len(filterTechniques) = 0
    /\ queue = <<>>
    /\ currentIndex = -1
    /\ \E n \in Held(NS) :
          n.type = "error" /\ n.message = "No techniques match current preferences"

\* C15: a write that fails while a change of the queue is persisted is
\* caught: it adds a transient error notification, leaves the entry of
\* its key as it was, and the queue, the cursor and isPlaying keep the
\* values that the operation computed.
SaveFailures(ns, later) ==
    {n \in AddedSince(ns, later) :
        /\ n.type = "error"
        /\ n.duration = "transient"
        /\ n.message = "Failed to save queue state to storage"}

PersistCall ==
    \A okQueue, okState \in BOOLEAN :
        LET w == watchCallback(NS, storage, queue, currentIndex, TRUE, okQueue, okState)
        IN  /\ AddedSince(NS, w.ns) = SaveFailures(NS, w.ns)
            /\ Cardinality(SaveFailures(NS, w.ns))
                   = (IF okQueue THEN 0 ELSE 1) + (IF okState THEN 0 ELSE 1)
            /\ w.st.queue = (IF okQueue THEN JSONstringify(Ids(queue)) ELSE storage.queue)
            /\ w.st.playstate = (IF okState
                                 THEN JSONstringify([currentIndex |-> currentIndex])
                                 ELSE storage.playstate)

KeepsFailedEntries ==
    /\ ~Works("queue") => storage'.queue = storage.queue
    /\ ~Works("playstate") => storage'.playstate = storage.playstate

BestEffortPersistence ==
    /\ []PersistCall
    /\ [][/\ (~StorageWorks /\ queueVars' # queueVars /\ ~Reload)
               => (SaveFailures(NS, NS') # {} /\ KeepsFailedEntries)
          /\ ~(currentIndex' = currentIndex + 1 /\ UNCHANGED <<queue, isPlaying>>)
               => ~(currentIndex < Len(queue) - 1 /\ NextTrack)
          /\ ~(queue' = <<>> /\ currentIndex' = -1 /\ isPlaying' = FALSE)
               => ~ResetQueue
          /\ \A playing \in BOOLEAN :
                ~(isPlaying' = playing /\ UNCHANGED <<queue, currentIndex>>)
                    => ~SetPlaying(playing)]_vars

\* nextTrack has advanced the cursor while the write of the play state
\* failed: the stored cursor is behind, and the failure is reported.
PersistFailureWitness ==
    /\ ~Works("playstate")
    /\ currentIndex >= 1
    /\ storage.playstate # <<>>
    /\ JSONparse(storage.playstate).currentIndex < currentIndex
    /\ SaveFailures(InitNS, NS) # {}

\* C19: with working storage, after a step of generateQueue, resetQueue,
\* initializeQueue (catalog not empty) or nextTrack (cursor not on the
\* last item), the stored list is the list of the identifiers of the
\* queue and the stored cursor is the cursor.
Mirrored ==
    /\ storage.queue = JSONstringify(Ids(queue))
    /\ storage.playstate = JSONstringify([currentIndex |-> currentIndex])

Mutates ==
    /\ UNCHANGED <<techniques, preferences, failingKeys>>
    /\ \/ ResetQueue
       \/ (currentIndex < Len(queue) - 1 /\ NextTrack)
       \/ (Len(techniques) > 0
              /\ \E forceRegenerate \in BOOLEAN : InitializeQueue(forceRegenerate))
       \/ GenerateQueue

StoreMirrorsQueue ==
    [][(StorageWorks /\ ~Mirrored') => ~Mutates]_vars

\* nextTrack has advanced the cursor of a queue generated in the session,
\* and the storage holds both.
MirrorWitness ==
    /\ failingKeys = {}
    /\ nextId >= 2
    /\ Len(queue) >= 2
    /\ currentIndex >= 1
    /\ Mirrored

\* C20: a step of setPlaying leaves the items and the cursor as they were,
\* and a list and a cursor held in the storage are the same after the step
\* as before it.
SetPlayingFrame ==
    [][(/\ storage.queue # <<>>
        /\ storage.playstate # <<>>
        /\ \/ storage' # storage
           \/ queue' # queue
           \/ currentIndex' # currentIndex)
          => ~(\E playing \in BOOLEAN : SetPlaying(playing))]_vars

\* C25: nextTrack with the cursor before the last item moves the cursor
\* forward by one, returns the item under the new cursor, and leaves the
\* items and isPlaying as they were; nextTrack on an empty queue returns
\* none and changes no variable.
AdvanceCall ==
    /\ (Len(queue) > 0 /\ currentIndex >= 0 /\ currentIndex < Len(queue) - 1)
          => /\ nextTrack(queue, currentIndex).currentIndex = currentIndex + 1
             /\ nextTrack(queue, currentIndex).ret = queue[currentIndex + 2]
             /\ nextTrack(queue, currentIndex).ret # NoTechnique
    /\ Len(queue) = 0
          => nextTrack(queue, currentIndex) = [currentIndex |-> currentIndex, ret |-> NoTechnique]

NextTrackAdvances ==
    /\ []AdvanceCall
    /\ [][/\ (/\ currentIndex < Len(queue) - 1
              /\ ~(currentIndex' = currentIndex + 1 /\ UNCHANGED <<queue, isPlaying>>))
               => ~NextTrack
          /\ (Len(queue) = 0 /\ ~UNCHANGED vars) => ~NextTrack]_vars

\* nextTrack has moved the cursor to the middle of a queue that is playing.
AdvanceWitness ==
    /\ Len(queue) = 3
    /\ currentIndex = 1
    /\ isPlaying

----------------------------------------------------------------------------
(* Properties of the restoration of the play queue *)

\* What the two keys of the play queue give to a reader.
QueueReadable == Works("queue") /\ "queue" \notin storage.garbled
PlayStateReadable == Works("playstate") /\ "playstate" \notin storage.garbled

StoredIds ==
    IF QueueReadable /\ storage.queue # <<>> THEN JSONparse(storage.queue) ELSE <<>>

InCatalog(id) == \E k \in 1..Len(techniques) : techniques[k].id = id

ResolvedIds == SelectSeq(StoredIds, InCatalog)

\* A non-forced initializeQueue accepts the stored queue.
Accepts == Len(techniques) > 0 /\ Len(ResolvedIds) > 0

\* C11: a step of initializeQueue() that accepts a restored queue of n
\* items leaves the stored cursor c when 0 <= c < n, n - 1 when c >= n,
\* and 0 when c is negative or no cursor is stored.
PolicyCursor ==
    LET n == Len(ResolvedIds)
    IN  IF storage.playstate = <<>> THEN 0
        ELSE LET c == JSONparse(storage.playstate).currentIndex
             IN  IF c < 0 THEN 0 ELSE IF c >= n THEN n - 1 ELSE c

CursorRestoration ==
    [][(Accepts /\ PlayStateReadable /\ InitializeQueue(FALSE))
        => currentIndex' = PolicyCursor]_vars

\* A queue of two or more items restored (the session has emitted no
\* notification) with the cursor on its last item.
CursorWitness ==
    /\ nextId = 1
    /\ Len(queue) >= 2
    /\ Len(queue) < Len(techniques)
    /\ currentIndex = Len(queue) - 1

\* C12: a step of initializeQueue() with a non-empty catalog leaves the
\* stored identifiers that are in the catalog, in their stored order, when
\* there is at least one; otherwise (none resolves, nothing is stored or
\* readable) it leaves what generateQueue produces.
ProducedByGenerate ==
    /\ queue' \in shuffleArray(filterTechniques)
    /\ currentIndex' = (IF Len(queue') > 0 THEN 0 ELSE -1)
    /\ isPlaying' = FALSE
    /\ nextId' > nextId

DropsUnresolvable ==
    [][(Len(techniques) > 0 /\ InitializeQueue(FALSE))
        => IF Len(ResolvedIds) > 0
           THEN /\ Ids(queue') = ResolvedIds
                /\ Range(queue') \subseteq Range(techniques)
           ELSE ProducedByGenerate]_vars

\* A queue restored from a list whose first technique has left the catalog,
\* in an order that the catalog does not have.
DropWitness ==
    /\ nextId = 1
    /\ Len(queue) >= 2
    /\ techniques = Tail(FullCatalog)
    /\ queue[1].id > queue[2].id

\* C13: with an empty catalog initializeQueue returns false, assigns
\* nothing and adds no notification, for both values of forceRegenerate;
\* the step changes nothing, the storage included.
EmptyCatalogCall ==
    Len(techniques) = 0
        => \A forceRegenerate \in BOOLEAN :
               LET r == initializeQueue(queue, currentIndex, isPlaying, NS, storage,
                                        techniques, <<>>, forceRegenerate,
                                        Works("queue"), Works("playstate"))
               IN  /\ r.ret = FALSE
                   /\ r.queue = queue
                   /\ r.currentIndex = currentIndex
                   /\ r.isPlaying = isPlaying
                   /\ r.ns = NS
                   /\ ~r.assigned

EmptyCatalogNoOp ==
    /\ []EmptyCatalogCall
    /\ [][(Len(techniques) = 0
            /\ \E forceRegenerate \in BOOLEAN : InitializeQueue(forceRegenerate))
            => UNCHANGED vars]_vars

\* A session whose catalog is not loaded yet, over a stored queue that a
\* restoration would accept.
EmptyCatalogWitness ==
    /\ Len(techniques) = 0
    /\ queue = <<>>
    /\ storage.queue # <<>>
    /\ Len(JSONparse(storage.queue)) >= 2
    /\ failingKeys = {}
    /\ storage.garbled = {}

\* C16: when the stored queue or the stored play state cannot be read
\* (getItem throws, or the text does not parse), initializeQueue() adds a
\* transient error notification for each and still leaves a queue that
\* satisfies the queue invariant: the stored one with cursor 0 when only
\* the play state is unreadable, a generated one when the queue is.
LoadFailures(ns, later) ==
    {n \in AddedSince(ns, later) :
        /\ n.type = "error"
        /\ n.duration = "transient"
        /\ n.message \in {"Failed to load queue from storage",
                           "Failed to load play state from storage"}}

ReadFails == ~QueueReadable \/ ~PlayStateReadable

RestoreCall ==
    Len(techniques) > 0
        => \A shuffled \in shuffleArray(filterTechniques) :
               LET r == restoreQueue(NS, storage, techniques, shuffled,
                                     Works("queue"), Works("playstate"))
               IN  /\ Cardinality(LoadFailures(NS, r.ns))
                          = (IF QueueReadable THEN 0 ELSE 1)
                                + (IF PlayStateReadable THEN 0 ELSE 1)
                   /\ IF Len(r.queue) = 0
                      THEN r.currentIndex = -1 /\ r.isPlaying = FALSE
                      ELSE 0 <= r.currentIndex /\ r.currentIndex < Len(r.queue)
                   /\ (~PlayStateReadable /\ Len(ResolvedIds) > 0)
                          => (Ids(r.queue) = ResolvedIds /\ r.currentIndex = 0)
                   /\ ~QueueReadable => r.queue = shuffled

NoneResolves ==
    /\ Len(techniques) > 0
    /\ Len(StoredIds) > 0
    /\ Len(ResolvedIds) = 0

TotalFailureSurfaced ==
    [][(NoneResolves /\ InitializeQueue(FALSE))
        => \E n \in AddedSince(NS, NS') :
               n.type = "error" /\ n.duration = "transient"]_vars

\* The restoration drops identifiers; it moves a stored cursor that is out
\* of range.
Drops == Len(ResolvedIds) < Len(StoredIds)

Clamps ==
    /\ PlayStateReadable
    /\ storage.playstate # <<>>
    /\ \/ JSONparse(storage.playstate).currentIndex < 0
       \/ JSONparse(storage.playstate).currentIndex >= Len(ResolvedIds)

\* C18 as stated: a step of initializeQueue() that accepts a restored queue
\* after dropping identifiers or clamping the cursor adds no notification.
RecoverableNeverSurfaced ==
    [][(Accepts /\ (Drops \/ Clamps) /\ InitializeQueue(FALSE))
        => UNCHANGED notifVars]_vars

\* C18: a step of initializeQueue() that accepts a restored queue after
\* dropping identifiers or clamping the cursor, when both entries can be
\* read and written, adds no notification.
RecoverableSilent ==
    [][(Accepts /\ PlayStateReadable /\ (Drops \/ Clamps) /\ InitializeQueue(FALSE))
        => UNCHANGED notifVars]_vars

\* A queue restored without its first technique, which has left the
\* catalog, in a session that holds no notification.
SilentWitness ==
    /\ Held(NS) = {}
    /\ nextId = 1
    /\ Len(queue) >= 1
    /\ techniques = Tail(FullCatalog)
    /\ storage.queue = JSONstringify(Ids(queue))
    /\ failingKeys = {}

\* C32: resetQueue leaves no items, cursor -1 and isPlaying false, and
\* with working storage the stored list is empty and the stored cursor -1
\* afterwards; a non-forced initializeQueue that finds the empty list
\* stored leaves what generateQueue produces.
ResetPost ==
    /\ queue' = <<>>
    /\ currentIndex' = -1
    /\ isPlaying' = FALSE
    /\ StorageWorks
          => /\ storage'.queue = JSONstringify(<<>>)
             /\ storage'.playstate = JSONstringify([currentIndex |-> -1])

ResetThenGenerate ==
    [][/\ (UNCHANGED <<techniques, preferences, failingKeys>> /\ ~ResetPost)
            => ~ResetQueue
       /\ (/\ storage.queue = JSONstringify(<<>>)
           /\ Works("queue")
           /\ Len(techniques) > 0
           /\ ~ProducedByGenerate)
            => ~InitializeQueue(FALSE)]_vars

\* resetQueue has emptied a queue generated in the session, and the
\* storage holds the empty list.
ResetWitness ==
    /\ queue = <<>>
    /\ currentIndex = -1
    /\ ~isPlaying
    /\ Len(filterTechniques) > 0
    /\ nextId = 2
    /\ activeNotification.type = "status"
    /\ failingKeys = {}
    /\ storage.queue = JSONstringify(<<>>)
    /\ storage.playstate = JSONstringify([currentIndex |-> -1])

NoDuplicates(ids) ==
    \A i, j \in 1..Len(ids) : i # j => ids[i] # ids[j]

\* C37: the queue never holds the same technique identifier twice, and
\* neither does the stored list, when the catalog has one technique per
\* identifier and localStorage holds what the store has written.
QueueHasNoDuplicates ==
    /\ NoDuplicates(Ids(queue))
    /\ storage.queue # <<>> => NoDuplicates(JSONparse(storage.queue))

\* A queue of two or more items restored from the stored list: the
\* session has emitted no notification.
NoDuplicatesWitness ==
    /\ nextId = 1
    /\ Len(queue) >= 2
    /\ Ids(queue) = JSONparse(storage.queue)
    /\ NoDuplicates(Ids(techniques))

\* C38: generateQueue returns true exactly when it leaves a queue that is
\* not empty, and so does initializeQueue, forced or not, when the catalog
\* is not empty; currentTechnique is the item under the cursor, and it is
\* none exactly when the queue is empty.
ResultTellsQueue ==
    /\ \A shuffled \in shuffleArray(filterTechniques) :
          /\ LET g == generateQueue(NS, shuffled)
             IN  g.ret <=> Len(g.queue) > 0
          /\ Len(techniques) > 0
                => \A forceRegenerate \in BOOLEAN :
                      LET r == initializeQueue(queue, currentIndex, isPlaying, NS, storage,
                                               techniques, shuffled, forceRegenerate,
                                               Works("queue"), Works("playstate"))
                      IN  r.ret <=> Len(r.queue) > 0
    /\ Len(queue) > 0
          => /\ currentIndex \in 0..(Len(queue) - 1)
             /\ currentTechnique(queue, currentIndex) = queue[currentIndex + 1]
    /\ currentTechnique(queue, currentIndex) # NoTechnique <=> Len(queue) > 0

\* A catalog is loaded, the preferences select nothing from it, and the
\* queue that generateQueue left is empty.
ResultWitness ==
    /\ Len(techniques) > 0
    /\ Len(filterTechniques) = 0
    /\ queue = <<>>
    /\ \E n \in Held(NS) : n.message = "No techniques match current preferences"

----------------------------------------------------------------------------
(* Properties of the operations of the notifications store *)

Cleared ==
    /\ activeNotification = NoNotification
    /\ permanentNotification = NoNotification
    /\ notificationQueue = <<>>
    /\ ~isTransientShowing

Expires == \E handle \in 1..MaxNotifications : TimerExpiry(handle)

\* C21: dismissNotification() without an identifier leaves no active and
\* no permanent notification, an empty backlog, isTransientShowing false
\* and no pending timer; no timer then fires before a notification is
\* added.
DismissAllClears ==
    /\ [][DismissNotification(0) => (Cleared' /\ timers' = {})]_vars
    /\ [][(Cleared /\ timers = {} /\ nextId' = nextId)
            => (timers' = {} /\ ~Expires)]_vars

\* Three notifications were added, nothing is left of them, and the timer
\* was cancelled and not left to fire.
DismissAllWitness ==
    /\ Cleared
    /\ nextId >= 4
    /\ transientTimerId = NoTimer
    /\ timers = {}

\* C22: addNotification(permanent) puts the new notification in the
\* permanent slot whatever the slot held; when the slot held the active
\* notification, the new one is the active one afterwards; the slot never
\* goes back to a notification it held before, and a permanent
\* notification is active only while it is in the slot.
PermanentReplaced ==
    /\ [](IsPermanent(activeNotification) => activeNotification = permanentNotification)
    /\ [][/\ AddsPermanent
              => /\ permanentNotification'.id = nextId
                 /\ IsPermanent(permanentNotification')
                 /\ (/\ permanentNotification # NoNotification
                     /\ activeNotification = permanentNotification)
                        => activeNotification' = permanentNotification'
          /\ permanentNotification' # permanentNotification
              => \/ permanentNotification' = NoNotification
                 \/ permanentNotification'.id >= nextId]_vars

\* Two notifications were added, the second of them permanent, and it is
\* the active one; no timer has been started or one was cancelled.
ReplacedWitness ==
    /\ nextId = 3
    /\ IsPermanent(permanentNotification)
    /\ permanentNotification.id = 2
    /\ activeNotification = permanentNotification
    /\ notificationQueue = <<>>
    /\ timers = {}

\* C23: cleanup leaves no pending timer, and leaves the active and the
\* permanent notification, the backlog and isTransientShowing as they
\* were.
CleanupFrame ==
    [][Cleanup
         => /\ timers' = {}
            /\ transientTimerId' = NoTimer \/ transientTimerId' = transientTimerId
            /\ UNCHANGED <<activeNotification, permanentNotification,
                           notificationQueue, isTransientShowing>>]_vars

\* cleanup has cancelled the timer of the showing transient.
CleanupWitness ==
    /\ isTransientShowing
    /\ IsTransient(activeNotification)
    /\ transientTimerId = NoTimer
    /\ timers = {}

\* C26: when the timer of the showing transient fires with an empty
\* backlog, isTransientShowing is false afterwards and the active
\* notification is the permanent one, or none when there is none; with a
\* backlog, its head is the active notification afterwards, the backlog is
\* its tail, isTransientShowing is true and a new timer is pending.
ExpiryHandler ==
    [][Expires
         => IF notificationQueue = <<>>
            THEN /\ ~isTransientShowing'
                 /\ activeNotification' = permanentNotification
                 /\ timers' = {}
                 /\ UNCHANGED <<permanentNotification, notificationQueue>>
            ELSE /\ activeNotification' = Head(notificationQueue)
                 /\ notificationQueue' = Tail(notificationQueue)
                 /\ isTransientShowing'
                 /\ timers' = {activeNotification'.id}
                 /\ transientTimerId' \in timers'
                 /\ transientTimerId' # transientTimerId
                 /\ UNCHANGED permanentNotification]_vars

\* The timer of a transient has fired with an empty backlog: the store
\* still holds the handle of the timer, and the permanent notification is
\* the active one again.
ExpiryWitness ==
    /\ ~isTransientShowing
    /\ transientTimerId # NoTimer
    /\ timers = {}
    /\ permanentNotification # NoNotification
    /\ activeNotification = permanentNotification

AddsTransient ==
    \E n \in ExternalNotifications :
        n[3] = "transient" /\ AddNotification(n[1], n[2], n[3])

\* C27: addNotification(transient) while no transient is showing makes the
\* new notification the active one, sets isTransientShowing, starts a
\* timer and leaves the backlog empty and the permanent slot as it was,
\* whether or not a permanent notification is the active one.
ImmediateDisplay ==
    [][(AddsTransient /\ ~isTransientShowing)
         => /\ activeNotification'.id = nextId
            /\ IsTransient(activeNotification')
            /\ isTransientShowing'
            /\ transientTimerId' = nextId
            /\ timers' = {nextId}
            /\ notificationQueue' = <<>>
            /\ UNCHANGED permanentNotification]_vars

\* The second notification of the session is a transient one, added over
\* the permanent one and showing in its place.
ImmediateWitness ==
    /\ nextId = 3
    /\ permanentNotification.id = 1
    /\ activeNotification.id = 2
    /\ IsTransient(activeNotification)
    /\ isTransientShowing
    /\ timers = {2}
    /\ notificationQueue = <<>>

\* C28: addNotification(transient) while a transient is showing appends
\* the new notification to the backlog and changes nothing else of the
\* store; processQueue changes nothing when a transient is showing or the
\* backlog is empty.
ProcessIdle ==
    (isTransientShowing \/ notificationQueue = <<>>) => processQueue(NS) = NS

AppendOnly ==
    /\ []ProcessIdle
    /\ [][(AddsTransient /\ isTransientShowing)
            => /\ Len(notificationQueue') = Len(notificationQueue) + 1
               /\ SubSeq(notificationQueue', 1, Len(notificationQueue)) = notificationQueue
               /\ notificationQueue'[Len(notificationQueue')].id = nextId
               /\ IsTransient(notificationQueue'[Len(notificationQueue')])
               /\ UNCHANGED <<activeNotification, permanentNotification,
                              isTransientShowing, transientTimerId, timers>>]_vars

\* Two transients wait in the backlog behind the one showing, in the
\* order in which they were added.
AppendWitness ==
    /\ isTransientShowing
    /\ timers = {activeNotification.id}
    /\ Len(notificationQueue) = 2
    /\ notificationQueue[2].id = nextId - 1
    /\ notificationQueue[1].id = nextId - 2

\* C29: dismissNotification(id) of the showing transient leaves no timer
\* of that transient; with a backlog, its head is the active notification
\* afterwards, showing with a timer of its own; without one,
\* isTransientShowing is false and the active notification is the
\* permanent one, or none when there is none.  The permanent slot keeps
\* its value.
DismissShowing ==
    [][(/\ isTransientShowing
        /\ IsTransient(activeNotification)
        /\ DismissNotification(activeNotification.id))
         => /\ activeNotification.id \notin timers'
            /\ UNCHANGED permanentNotification
            /\ IF notificationQueue # <<>>
               THEN /\ activeNotification' = Head(notificationQueue)
                    /\ notificationQueue' = Tail(notificationQueue)
                    /\ isTransientShowing'
                    /\ transientTimerId' = activeNotification'.id
                    /\ timers' = {transientTimerId'}
               ELSE /\ ~isTransientShowing'
                    /\ activeNotification' = permanentNotification
                    /\ notificationQueue' = <<>>
                    /\ transientTimerId' = NoTimer
                    /\ timers' = {}]_vars

\* The transient added after the permanent notification is gone and no
\* handle of a timer is held: the permanent one is active again.
DismissShowingWitness ==
    /\ nextId = 3
    /\ permanentNotification.id = 1
    /\ activeNotification = permanentNotification
    /\ ~isTransientShowing
    /\ transientTimerId = NoTimer
    /\ timers = {}
    /\ notificationQueue = <<>>

\* C30: dismissNotification(id) of the permanent notification, when it is
\* the active one, leaves no active and no permanent notification, and a
\* backlog does not stay unprocessed; when a transient is showing, it
\* empties the permanent slot and changes nothing else.  A permanent
\* notification that is active after a step is in the slot, where it was
\* before the step or has just been added, so a dismissed one is never
\* active again.
DismissPermanent ==
    [][/\ (/\ permanentNotification # NoNotification
           /\ activeNotification = permanentNotification
           /\ DismissNotification(permanentNotification.id))
            => /\ permanentNotification' = NoNotification
               /\ activeNotification'.id # permanentNotification.id
               /\ IF notificationQueue = <<>>
                  THEN activeNotification' = NoNotification /\ ~isTransientShowing'
                  ELSE activeNotification' = Head(notificationQueue) /\ isTransientShowing'
       /\ (/\ permanentNotification # NoNotification
           /\ isTransientShowing
           /\ IsTransient(activeNotification)
           /\ DismissNotification(permanentNotification.id))
            => /\ permanentNotification' = NoNotification
               /\ UNCHANGED <<activeNotification, notificationQueue, isTransientShowing,
                              transientTimerId, timers>>
       /\ IsPermanent(activeNotification')
            => /\ activeNotification' = permanentNotification'
               /\ \/ permanentNotification' = permanentNotification
                  \/ permanentNotification'.id = nextId]_vars

\* The permanent notification added under the showing transient was
\* dismissed, the timer of the transient has fired since, and nothing is
\* active.
DismissPermanentWitness ==
    /\ nextId = 3
    /\ Cleared
    /\ transientTimerId = 1
    /\ timers = {}

\* C31: dismissNotification(id) of a notification waiting in the backlog
\* removes that entry and no other, keeps the order of the others, and
\* leaves the active and the permanent notification and the timer as they
\* were; a transient notification becomes active only from the backlog or
\* in the step that adds it, so the removed one is never active.
DismissWaiting ==
    /\ [][\A id \in 1..MaxNotifications :
            ((\E n \in Backlog : n.id = id) /\ DismissNotification(id))
               => /\ \E k \in 1..Len(notificationQueue) :
                        /\ notificationQueue[k].id = id
                        /\ notificationQueue' =
                               SubSeq(notificationQueue, 1, k - 1)
                                   \o SubSeq(notificationQueue, k + 1, Len(notificationQueue))
                  /\ UNCHANGED <<activeNotification, permanentNotification,
                                 isTransientShowing, transientTimerId, timers>>]_vars
    /\ [][(activeNotification' # activeNotification /\ IsTransient(activeNotification'))
            => \/ activeNotification' \in Backlog
               \/ activeNotification'.id = nextId]_vars

\* Of the two notifications added behind the showing one, the first has
\* left the backlog while the showing one is still on screen.
DismissWaitingWitness ==
    /\ nextId = 4
    /\ isTransientShowing
    /\ activeNotification.id = 1
    /\ timers = {1}
    /\ Len(notificationQueue) = 1
    /\ notificationQueue[1].id = 3
    /\ permanentNotification = NoNotification

\* C34: whenever no transient is showing the backlog is empty, after any
\* sequence of addNotification, dismissNotification, cleanup and expiries
\* of the timer.
IdleBacklogEmpty == ~isTransientShowing => notificationQueue = <<>>

\* Three transients were added and the last timer, the one of the third,
\* has fired: nothing shows and nothing waits.
IdleWitness ==
    /\ ~isTransientShowing
    /\ notificationQueue = <<>>
    /\ nextId = 4
    /\ transientTimerId = 3
    /\ timers = {}
    /\ permanentNotification = NoNotification

\* C35: whenever no transient is showing, the active notification is the
\* permanent one (both none, or the same notification); so a transient
\* added then passes the test of line 75 and is the active one after the
\* call.
IdleShowsPermanent ==
    /\ ~isTransientShowing => activeNotification = permanentNotification
    /\ ~isTransientShowing
          => \A n \in ExternalNotifications :
                n[3] = "transient"
                    => LET added == addNotification(NS, n[1], n[2], n[3])
                       IN  /\ added.activeNotification.id = nextId
                           /\ added.isTransientShowing
                           /\ added.notificationQueue = <<>>

\* A transient has expired over a permanent notification, which is the
\* active one again.
IdlePermanentWitness ==
    /\ ~isTransientShowing
    /\ transientTimerId # NoTimer
    /\ timers = {}
    /\ permanentNotification # NoNotification
    /\ activeNotification = permanentNotification
    /\ permanentNotification.id < transientTimerId

\* C36: at most one timer is pending; a timer is pending only while a
\* transient is showing, and it is the one started for the active
\* notification, which is that transient; so the timer that fires is the
\* one of the active transient, never the one of a notification that was
\* dismissed or replaced.
OneTimer ==
    /\ Cardinality(timers) <= 1
    /\ timers # {}
          => /\ isTransientShowing
             /\ IsTransient(activeNotification)
             /\ timers = {activeNotification.id}
             /\ transientTimerId = activeNotification.id

SingleTimer ==
    /\ []OneTimer
    /\ [][\A handle \in 1..MaxNotifications :
            TimerExpiry(handle)
                => /\ isTransientShowing
                   /\ activeNotification.id = handle
                   /\ activeNotification' # activeNotification]_vars

\* The second transient shows after the first one was dismissed while
\* the second waited: the only pending timer is the one of the second.
SingleTimerWitness ==
    /\ isTransientShowing
    /\ activeNotification.id = 2
    /\ IsTransient(activeNotification)
    /\ timers = {2}
    /\ nextId = 4
    /\ Len(notificationQueue) = 1

----------------------------------------------------------------------------
(* Properties of the preference filter *)

Carries(technique, source) == Prop(technique, source) # Undefined

Contract(technique, prefs) ==
    \/ /\ Carries(technique, prefs.selectedSource)
       /\ Prop(technique, prefs.selectedSource) \in prefs.selectedKyus
    \/ /\ prefs.includeOther
       /\ \A source \in Range(prefs.sources) : ~Carries(technique, source)

\* C24: filterTechnique accepts an item exactly when the item has a level
\* for the selected source and the level is selected, or includeOther is
\* set and the item has no level for any available source; generateQueue
\* queues the accepted items and no other.
FilterContract ==
    /\ [](\A k \in 1..Len(techniques) :
              filterTechnique(techniques[k], preferences)
                  <=> Contract(techniques[k], preferences))
    /\ [][GenerateQueue
            => Range(queue') = {t \in Range(techniques) : Contract(t, preferences)}]_vars

\* An item without any level has been queued because includeOther is set.
FilterWitness ==
    /\ preferences.includeOther
    /\ Len(queue) = 1
    /\ queue[1].aikikai = Undefined
    /\ queue[1].aikicircle = Undefined

----------------------------------------------------------------------------
(* Properties of the audio player and of the preferences menu *)

LastItem == currentIndex >= Len(queue) - 1

\* C33: the end of an item sets isPlaying false; with the cursor before
\* the last index it advances the cursor by one in the same queue; with
\* the cursor at the last index it leaves a shuffle of what the filter
\* selects with cursor 0 when the filter selects something, and otherwise
\* no items, cursor -1 and an error notification.
EndOfItem ==
    [][OnEnded
        => /\ isPlaying' = FALSE
           /\ IF ~LastItem
              THEN /\ queue' = queue
                   /\ currentIndex' = currentIndex + 1
              ELSE IF Len(filterTechniques) > 0
              THEN /\ IsPermutation(queue', filterTechniques)
                   /\ currentIndex' = 0
              ELSE /\ queue' = <<>>
                   /\ currentIndex' = -1
                   /\ \E n \in AddedSince(NS, NS') :
                         /\ n.type = "error"
                         /\ n.message = "No techniques match current preferences"]_vars

\* The end of the last item always leaves a queue with cursor 0.
EndOfItemAlwaysRefills ==
    [][(OnEnded /\ LastItem) => (Len(queue') > 0 /\ currentIndex' = 0)]_vars

\* The second queue of a session that began with a generated one and in
\* which the preferences were not changed: the first queue has been
\* played to its end.
EndOfItemWitness ==
    /\ preferences = DEFAULT_PREFERENCES
    /\ failingKeys = {}
    /\ nextId = 3
    /\ \A n \in Held(NS) : n.type = "status"
    /\ Len(queue) > 1
    /\ currentIndex = 0
    /\ ~isPlaying

ZeroSelection ==
    "Your selection would result in zero techniques. Please adjust your preferences."

\* The drafts with a listed source that select nothing from the catalog.
EmptyDrafts ==
    {draft \in Drafts(preferences) :
        /\ draft.selectedSource \in Range(draft.sources)
        /\ Len(filterTechniquesUtil(techniques, draft)) = 0}

\* C40: applyChanges with a draft that selects nothing from the catalog
\* leaves the preferences of the store and the stored ones as they were,
\* does not emit close, and adds one transient error notification; the
\* play queue is left as it was.  A step of applyChanges that changes the
\* preferences leaves a queue that is not empty: a shuffle of what the new
\* preferences select.
RejectsEmptySelection ==
    /\ [](\A draft \in EmptyDrafts :
            LET a == applyChanges(preferences, techniques, NS, draft)
            IN  /\ ~a.closed
                /\ ~a.committed
                /\ a.preferences = preferences
                /\ a.ns.nextId = nextId + 1
                /\ \A n \in AddedSince(NS, a.ns) :
                      /\ n.type = "error"
                      /\ n.duration = "transient"
                      /\ n.message = ZeroSelection)
    /\ [][\A draft \in EmptyDrafts :
            ApplyChanges(draft)
                => /\ preferences' = preferences
                   /\ storage' = storage
                   /\ UNCHANGED queueVars
                   /\ nextId' = nextId + 1]_vars
    /\ [][\A draft \in Drafts(preferences) :
            (preferences' # preferences /\ ApplyChanges(draft))
                => /\ Len(queue') > 0
                   /\ IsPermutation(queue', filterTechniquesUtil(techniques, preferences'))
                   /\ currentIndex' = 0]_vars

\* The menu has refused a draft while a queue was loaded, and the
\* preferences are the default ones.
RejectedWitness ==
    /\ \E n \in Held(NS) : n.message = ZeroSelection
    /\ preferences = DEFAULT_PREFERENCES
    /\ JSONparse(storage.preferences) = DEFAULT_USER_PREFERENCES
    /\ Len(queue) > 0

\* C39: the selected source of the preferences store is one of the
\* available sources, after the load from the storage and after every
\* operation of the store.
SourceAvailable == preferences.selectedSource \in Range(preferences.sources)

\* The operations of the store keep an available source available, and an
\* update that names an unknown source leaves the selected one.
UpdatesKeepSource ==
    /\ [](\A source \in SourceInputs :
            source \notin Range(preferences.sources)
                => updateSelectedSource(preferences, source) = preferences)
    /\ [][(SourceAvailable /\ ~SourceAvailable') => Reload]_vars

====
